---- MODULE Spec2Model ----
(***************************************************************************)
(* A model of the machineid package: the Provider (configuration, cache,   *)
(* mutex, diagnostics), the three platform collectors, the identifier      *)
(* aggregation helpers, and the hash / format pipeline.                    *)
(*                                                                         *)
(* Strings are sequences of characters.  A character is either a byte      *)
(* (given by its code) or the i-th hex digit of a SHA-256 digest.  SHA-256 *)
(* is modelled as an ideal, collision-free hash: the digest of a message   *)
(* is a term that records the message, and its hex encoding is the         *)
(* sequence of its 64 digits.  Two digests are equal exactly when their    *)
(* messages are equal, and digit i of one digest differs from digit j of   *)
(* another unless both the digests and the positions agree.                *)
(***************************************************************************)
EXTENDS Integers, Sequences, FiniteSets, TLC

\* ------------------------------------------------------------------------
\* Strings
\* ------------------------------------------------------------------------

Byte(b) == [hex |-> <<>>, n |-> b]

HexDigit(d, i) == [hex |-> <<d>>, n |-> i]

\* The Go string literal whose bytes are the given codes.
S(codes) == [i \in 1..Len(codes) |-> Byte(codes[i])]

Empty == <<>>

Range(s) == {s[i] : i \in 1..Len(s)}

\* Go's < on strings: bytewise lexicographic order.
RECURSIVE StrLess(_, _)
StrLess(a, b) ==
    IF a = <<>> THEN b # <<>>
    ELSE IF b = <<>> THEN FALSE
    ELSE IF Head(a).n # Head(b).n THEN Head(a).n < Head(b).n
    ELSE StrLess(Tail(a), Tail(b))

\* Insert x into the ascending list s, after the elements not greater than it.
RECURSIVE InsertSorted(_, _)
InsertSorted(x, s) ==
    IF s = <<>> THEN <<x>>
    ELSE IF StrLess(x, Head(s)) THEN <<x>> \o s
    ELSE <<Head(s)>> \o InsertSorted(x, Tail(s))

\* sort.Strings: the list in ascending order.
RECURSIVE sortStrings(_)
sortStrings(s) ==
    IF s = <<>> THEN <<>> ELSE InsertSorted(Head(s), sortStrings(Tail(s)))

\* strings.Join
RECURSIVE Join(_, _)
Join(elems, sep) ==
    IF elems = <<>> THEN Empty
    ELSE IF Len(elems) = 1 THEN elems[1]
    ELSE elems[1] \o sep \o Join(Tail(elems), sep)

\* ------------------------------------------------------------------------
\* SHA-256 and hex encoding
\* ------------------------------------------------------------------------

\* hex.EncodeToString of a 32-byte digest: 64 hex digits.
EncodeToString(d) == [i \in 1..64 |-> HexDigit(d, i)]

\* msg is the hex encoding of one digest.
IsEncoded(msg) ==
    /\ Len(msg) = 64
    /\ msg[1].hex # <<>>
    /\ msg = EncodeToString(msg[1].hex[1])

\* sha256.Sum256: the digest term of msg.  A message that is itself the
\* hex encoding of a digest is recorded by that digest (same information,
\* smaller term).
Sum256(msg) ==
    IF IsEncoded(msg)
    THEN [raw |-> <<>>, hexof |-> <<msg[1].hex[1]>>]
    ELSE [raw |-> msg, hexof |-> <<>>]

\* ------------------------------------------------------------------------
\* FormatMode, formatHash, hashIdentifiers
\* ------------------------------------------------------------------------

Format64 == 0
Format32 == 1
Format128 == 2
Format256 == 3

FormatModes == {Format64, Format32, Format128, Format256}

Pipe == S(<<124>>)

\* formatHash with every Format256 round digesting the base hash again.
formatHashUnchained(hash, mode) ==
    IF Len(hash) # 64 THEN hash
    ELSE CASE mode = Format32 -> SubSeq(hash, 1, 32)
           [] mode = Format64 -> hash
           [] mode = Format128 ->
                LET hash2 == Sum256(hash)
                IN  hash \o EncodeToString(hash2)
           [] mode = Format256 ->
                LET hash2 == Sum256(hash)
                IN  hash \o EncodeToString(hash2)
                         \o EncodeToString(hash2) \o EncodeToString(hash2)
           [] OTHER -> hash

\* formatHash with Format32 cut from the wrong end of the digest.
formatHashTail(hash, mode) ==
    IF Len(hash) # 64 THEN hash
    ELSE CASE mode = Format32 -> SubSeq(hash, 33, 64)
           [] mode = Format64 -> hash
           [] mode = Format128 ->
                LET hash2 == Sum256(hash)
                IN  hash \o EncodeToString(hash2)
           [] mode = Format256 ->
                LET hash2 == Sum256(hash)
                    hash3 == Sum256(EncodeToString(hash2))
                    hash4 == Sum256(EncodeToString(hash3))
                IN  hash \o EncodeToString(hash2)
                         \o EncodeToString(hash3) \o EncodeToString(hash4)
           [] OTHER -> hash

formatHash(hash, mode) ==
    IF Len(hash) # 64 THEN hash
    ELSE CASE mode = Format32 -> SubSeq(hash, 1, 32)
           [] mode = Format64 -> hash
           [] mode = Format128 ->
                LET hash2 == Sum256(hash)
                IN  hash \o EncodeToString(hash2)
           [] mode = Format256 ->
                LET hash2 == Sum256(hash)
                    hash3 == Sum256(EncodeToString(hash2))
                    hash4 == Sum256(EncodeToString(hash3))
                IN  hash \o EncodeToString(hash2)
                         \o EncodeToString(hash3) \o EncodeToString(hash4)
           [] OTHER -> hash

\* hashIdentifiers without the sort.
hashIdentifiersUnsorted(identifiers, salt, mode) ==
    LET joined == Join(identifiers, Pipe)
        combined == IF salt # Empty THEN salt \o Pipe \o joined ELSE joined
        rawHash == EncodeToString(Sum256(combined))
    IN  formatHash(rawHash, mode)

\* hashIdentifiers that never prepends the salt.
hashIdentifiersUnsalted(identifiers, salt, mode) ==
    LET sorted == sortStrings(identifiers)
        combined == Join(sorted, Pipe)
        rawHash == EncodeToString(Sum256(combined))
    IN  formatHash(rawHash, mode)

\* The string hashIdentifiers hashes, with the salt sorted among the
\* identifiers instead of put in front.
combinedSaltSorted(identifiers, salt) ==
    IF salt # Empty THEN Join(sortStrings(Append(identifiers, salt)), Pipe)
    ELSE Join(sortStrings(identifiers), Pipe)

\* The string hashIdentifiers hashes (its local variable combined).
combined(identifiers, salt) ==
    LET sorted == sortStrings(identifiers)
        joined == Join(sorted, Pipe)
    IN  IF salt # Empty THEN salt \o Pipe \o joined ELSE joined

hashIdentifiers(identifiers, salt, mode) ==
    LET rawHash == EncodeToString(Sum256(combined(identifiers, salt)))
    IN  formatHash(rawHash, mode)

\* strings.TrimSpace (the space byte stands for all white space).
Space == S(<<32>>)

RECURSIVE TrimLeft(_)
TrimLeft(s) ==
    IF s # <<>> /\ Head(s) = Space[1] THEN TrimLeft(Tail(s)) ELSE s

RECURSIVE TrimRight(_)
TrimRight(s) ==
    IF s # <<>> /\ s[Len(s)] = Space[1]
    THEN TrimRight(SubSeq(s, 1, Len(s) - 1)) ELSE s

TrimSpace(s) == TrimRight(TrimLeft(s))

\* ------------------------------------------------------------------------
\* Errors: an error is the chain of values reached by repeated Unwrap,
\* outermost first; nil is the empty chain.
\* ------------------------------------------------------------------------

Nil == <<>>

Sentinel(name) == <<[type |-> name, of |-> ""]>>

ErrNoIdentifiers == Sentinel("ErrNoIdentifiers")
ErrEmptyValue == Sentinel("ErrEmptyValue")
ErrNoValues == Sentinel("ErrNoValues")
ErrNotFound == Sentinel("ErrNotFound")
ErrOEMPlaceholder == Sentinel("ErrOEMPlaceholder")
ErrAllMethodsFailed == Sentinel("ErrAllMethodsFailed")

\* The two causes os/exec reports: the command's own failure, and the
\* context's deadline.
ExitError == Sentinel("exec.ExitError")
DeadlineExceeded == Sentinel("context.DeadlineExceeded")
\* encoding/json's error for text that is not valid JSON of the wanted shape.
SyntaxError == Sentinel("json.SyntaxError")
\* os.ReadFile's error.
PathError == Sentinel("fs.PathError")

ParseError(source, err) == <<[type |-> "ParseError", of |-> source]>> \o err

ComponentError(component, err) ==
    <<[type |-> "ComponentError", of |-> component]>> \o err

\* errors.Is(err, target) for a sentinel target.
ErrorsIs(err, target) == target[1] \in Range(err)

\* ------------------------------------------------------------------------
\* CommandExecutor
\* ------------------------------------------------------------------------

\* The context of one ID call as one producer sees it: expired tells
\* whether its deadline has already passed when the producer starts, and
\* at (when not 0) numbers the Execute call of this producer during which
\* the deadline passes.
Ctx(expired, at) == [expired |-> expired, at |-> at]

CtxDone(x, k) == x.expired \/ (x.at # 0 /\ x.at <= k)

\* What the operating system answers to a command: ok tells whether the
\* process ran and exited with status 0, out is its output (text, or the
\* parsed form of structured output).
Resp(ok, text, out) == [ok |-> ok, text |-> text, out |-> out]

\* Execute run with exec.Command instead of exec.CommandContext.
ExecuteNoContext(x, k, name, resp) ==
    IF ~resp.ok
    THEN [ok |-> FALSE, out |-> resp.out,
          err |-> <<[type |-> "fmt.wrapError", of |-> name]>> \o ExitError]
    ELSE [ok |-> TRUE,
          out |-> IF resp.text THEN TrimSpace(resp.out) ELSE resp.out,
          err |-> Nil]

\* defaultCommandExecutor.Execute, the k-th call of the current producer.
Execute(x, k, name, resp) ==
    IF CtxDone(x, k)
    THEN [ok |-> FALSE, out |-> resp.out,
          err |-> <<[type |-> "fmt.wrapError", of |-> name]>> \o DeadlineExceeded]
    ELSE IF ~resp.ok
    THEN [ok |-> FALSE, out |-> resp.out,
          err |-> <<[type |-> "fmt.wrapError", of |-> name]>> \o ExitError]
    ELSE [ok |-> TRUE,
          out |-> IF resp.text THEN TrimSpace(resp.out) ELSE resp.out,
          err |-> Nil]

executeCommand(x, k, name, resp) == Execute(x, k, name, resp)

\* The result of a producer: its value (a string, or a list of strings),
\* its error, and the number of Execute calls it made.
Result(val, err, execs) == [val |-> val, err |-> err, execs |-> execs]

\* ------------------------------------------------------------------------
\* Identifier aggregation
\* ------------------------------------------------------------------------

ComponentCPU == "cpu"
ComponentMotherboard == "motherboard"
ComponentSystemUUID == "uuid"
ComponentMAC == "mac"
ComponentDisk == "disk"
ComponentMachineID == "machine-id"

\* &DiagnosticInfo{Errors: make(map[string]error)}
NewDiagnosticInfo == [Errors |-> <<>>, Collected |-> <<>>]

\* A write to diag.Errors that is lost.
SetErrorLost(errors, component, err) == errors

\* diag.Errors[component] = err  (Errors is a map: a function whose domain
\* is the set of keys)
SetError(errors, component, err) == (component :> err) @@ errors

\* logger.Warn / Info / Debug behind `if logger != nil`: logger is a
\* pointer, <<>> nil and <<records>> a logger with the records its handler
\* has received.
Log(logger, level, msg, component) ==
    IF logger # <<>>
    THEN <<Append(logger[1], [level |-> level, msg |-> msg, component |-> component])>>
    ELSE logger

\* appendIdentifierIfValid without the empty-value check.
appendIdentifierIfValidUnchecked(identifiers, r, prefix, diag, component, logger) ==
    IF r.err # Nil
    THEN [identifiers |-> identifiers,
          diag |-> IF diag # <<>>
                   THEN <<[diag[1] EXCEPT !.Errors =
                        SetError(@, component, ComponentError(component, r.err))]>>
                   ELSE diag,
          logger |-> Log(logger, "WARN", "component failed", component)]
    ELSE [identifiers |-> Append(identifiers, prefix \o r.val),
          diag |-> IF diag # <<>>
                   THEN <<[diag[1] EXCEPT !.Collected = Append(@, component)]>>
                   ELSE diag,
          logger |-> Log(Log(logger, "INFO", "component collected", component),
                         "DEBUG", "component value", component)]

\* appendIdentifierIfValid reporting a failure to the logger when there is
\* one and to diag only when there is none.
appendIdentifierIfValidLogOrRecord(identifiers, r, prefix, diag, component, logger) ==
    IF r.err # Nil
    THEN [identifiers |-> identifiers,
          diag |-> IF diag # <<>> /\ logger = <<>>
                   THEN <<[diag[1] EXCEPT !.Errors =
                        SetError(@, component, ComponentError(component, r.err))]>>
                   ELSE diag,
          logger |-> Log(logger, "WARN", "component failed", component)]
    ELSE IF r.val = Empty
    THEN [identifiers |-> identifiers,
          diag |-> IF diag # <<>> /\ logger = <<>>
                   THEN <<[diag[1] EXCEPT !.Errors =
                        SetError(@, component, ComponentError(component, ErrEmptyValue))]>>
                   ELSE diag,
          logger |-> Log(logger, "WARN", "component returned empty value", component)]
    ELSE [identifiers |-> Append(identifiers, prefix \o r.val),
          diag |-> IF diag # <<>>
                   THEN <<[diag[1] EXCEPT !.Collected = Append(@, component)]>>
                   ELSE diag,
          logger |-> Log(Log(logger, "INFO", "component collected", component),
                         "DEBUG", "component value", component)]

\* appendIdentifierIfValid; r is what the one call of getValue returned.
\* diag is a pointer: <<>> is nil, <<d>> points to the record d.
appendIdentifierIfValid(identifiers, r, prefix, diag, component, logger) ==
    IF r.err # Nil
    THEN [identifiers |-> identifiers,
          diag |-> IF diag # <<>>
                   THEN <<[diag[1] EXCEPT !.Errors =
                        SetError(@, component, ComponentError(component, r.err))]>>
                   ELSE diag,
          logger |-> Log(logger, "WARN", "component failed", component)]
    ELSE IF r.val = Empty
    THEN [identifiers |-> identifiers,
          diag |-> IF diag # <<>>
                   THEN <<[diag[1] EXCEPT !.Errors =
                        SetError(@, component, ComponentError(component, ErrEmptyValue))]>>
                   ELSE diag,
          logger |-> Log(logger, "WARN", "component returned empty value", component)]
    ELSE [identifiers |-> Append(identifiers, prefix \o r.val),
          diag |-> IF diag # <<>>
                   THEN <<[diag[1] EXCEPT !.Collected = Append(@, component)]>>
                   ELSE diag,
          logger |-> Log(Log(logger, "INFO", "component collected", component),
                         "DEBUG", "component value", component)]

\* appendIdentifiersIfValid; r is what the one call of getValues returned.
appendIdentifiersIfValid(identifiers, r, prefix, diag, component, logger) ==
    IF r.err # Nil
    THEN [identifiers |-> identifiers,
          diag |-> IF diag # <<>>
                   THEN <<[diag[1] EXCEPT !.Errors =
                        SetError(@, component, ComponentError(component, r.err))]>>
                   ELSE diag,
          logger |-> Log(logger, "WARN", "component failed", component)]
    ELSE IF Len(r.val) = 0
    THEN [identifiers |-> identifiers,
          diag |-> IF diag # <<>>
                   THEN <<[diag[1] EXCEPT !.Errors =
                        SetError(@, component, ComponentError(component, ErrNoValues))]>>
                   ELSE diag,
          logger |-> Log(logger, "WARN", "component returned no values", component)]
    ELSE [identifiers |-> identifiers
                            \o [i \in 1..Len(r.val) |-> prefix \o r.val[i]],
          diag |-> IF diag # <<>>
                   THEN <<[diag[1] EXCEPT !.Collected = Append(@, component)]>>
                   ELSE diag,
          logger |-> Log(Log(logger, "INFO", "component collected", component),
                         "DEBUG", "component values", component)]

\* ------------------------------------------------------------------------
\* Values the operating system can report
\* ------------------------------------------------------------------------

ValA == S(<<65>>)
ValB == S(<<66>>)
Colon == S(<<58>>)

\* ------------------------------------------------------------------------
\* macOS collector
\* ------------------------------------------------------------------------

\* json.Unmarshal of system_profiler's output: json tells whether the text
\* parses, entries is the array found under the data-type key.
SPOutput(json, entries) == [json |-> json, entries |-> entries]

spHardwareEntry(uuid, serial, chip) ==
    [PlatformUUID |-> uuid, SerialNumber |-> serial, ChipType |-> chip]

spStorageEntry(deviceName, isInternal) ==
    [DeviceName |-> deviceName, IsInternal |-> isInternal]

\* ioreg's output, as the two regular expressions see it: the first
\* non-empty quoted value after each key, Empty when there is no match.
IORegOutput(uuid, serial) == [IOPlatformUUID |-> uuid, IOPlatformSerialNumber |-> serial]

extractHardwareField(hw, field) ==
    IF ~hw.json
    THEN [val |-> Empty, err |-> ParseError("system_profiler hardware JSON", SyntaxError)]
    ELSE IF Len(hw.entries) = 0
    THEN [val |-> Empty, err |-> ParseError("system_profiler hardware JSON", ErrNotFound)]
    ELSE IF hw.entries[1][field] = Empty
    THEN [val |-> Empty, err |-> ParseError("system_profiler hardware JSON", ErrEmptyValue)]
    ELSE [val |-> hw.entries[1][field], err |-> Nil]

\* Both ioreg fallbacks; k is the number of the Execute call.
macOSViaIOReg(x, k, w, key) ==
    LET r == executeCommand(x, k, "ioreg", w.ioreg)
    IN  IF ~r.ok THEN Result(Empty, r.err, k)
        ELSE IF r.out[key] # Empty THEN Result(r.out[key], Nil, k)
        ELSE Result(Empty, ParseError("ioreg output", ErrNotFound), k)

macOSHardwareUUIDViaIOReg(x, k, w) == macOSViaIOReg(x, k, w, "IOPlatformUUID")

macOSSerialNumberViaIOReg(x, k, w) == macOSViaIOReg(x, k, w, "IOPlatformSerialNumber")

macOSHardwareUUID(x, w) ==
    LET r == executeCommand(x, 1, "system_profiler", w.profiler)
        f == extractHardwareField(r.out, "PlatformUUID")
    IN  IF r.ok /\ f.err = Nil THEN Result(f.val, Nil, 1)
        ELSE macOSHardwareUUIDViaIOReg(x, 2, w)

macOSSerialNumber(x, w) ==
    LET r == executeCommand(x, 1, "system_profiler", w.profiler)
        f == extractHardwareField(r.out, "SerialNumber")
    IN  IF r.ok /\ f.err = Nil THEN Result(f.val, Nil, 1)
        ELSE macOSSerialNumberViaIOReg(x, 2, w)

\* macOSCPUInfo going on to system_profiler when the features query fails.
macOSCPUInfoStrict(x, w) ==
    LET b == executeCommand(x, 1, "sysctl", w.brand)
        cpuBrand == TrimSpace(b.out)
        ft == executeCommand(x, 2, "sysctl", w.features)
        useBrand == b.ok /\ cpuBrand # Empty /\ ft.ok
        k == IF b.ok /\ cpuBrand # Empty THEN 3 ELSE 2
        pr == executeCommand(x, k, "system_profiler", w.profiler)
    IN  IF useBrand
        THEN Result(cpuBrand \o Colon \o TrimSpace(ft.out), Nil, 2)
        ELSE IF pr.ok /\ pr.out.json /\ Len(pr.out.entries) > 0
                /\ pr.out.entries[1].ChipType # Empty
        THEN Result(pr.out.entries[1].ChipType, Nil, k)
        ELSE Result(Empty, ErrAllMethodsFailed, k)

macOSCPUInfo(x, w) ==
    LET b == executeCommand(x, 1, "sysctl", w.brand)
        cpuBrand == TrimSpace(b.out)
        useBrand == b.ok /\ cpuBrand # Empty
        ft == executeCommand(x, 2, "sysctl", w.features)
        k == 2
        pr == executeCommand(x, k, "system_profiler", w.profiler)
    IN  IF useBrand
        THEN IF ft.ok THEN Result(cpuBrand \o Colon \o TrimSpace(ft.out), Nil, 2)
             ELSE Result(cpuBrand, Nil, 2)
        ELSE IF pr.ok /\ pr.out.json /\ Len(pr.out.entries) > 0
                /\ pr.out.entries[1].ChipType # Empty
        THEN Result(pr.out.entries[1].ChipType, Nil, k)
        ELSE Result(Empty, ErrAllMethodsFailed, k)

\* The internal device names of the entries, each once, in order.
RECURSIVE InternalDiskNames(_, _)
InternalDiskNames(entries, seen) ==
    IF entries = <<>> THEN <<>>
    ELSE LET name == Head(entries).DeviceName
         IN  IF name = Empty \/ Head(entries).IsInternal # "yes" \/ name \in seen
             THEN InternalDiskNames(Tail(entries), seen)
             ELSE <<name>> \o InternalDiskNames(Tail(entries), seen \cup {name})

parseStorageJSON(storage) ==
    IF ~storage.json
    THEN [val |-> <<>>, err |-> ParseError("system_profiler storage JSON", SyntaxError)]
    ELSE LET diskNames == InternalDiskNames(storage.entries, {})
         IN  IF Len(diskNames) = 0
             THEN [val |-> <<>>,
                   err |-> ParseError("system_profiler storage output", ErrNotFound)]
             ELSE [val |-> diskNames, err |-> Nil]

macOSDiskInfo(x, w) ==
    LET r == executeCommand(x, 1, "system_profiler", w.storage)
        parsed == parseStorageJSON(r.out)
    IN  IF ~r.ok THEN Result(<<>>, r.err, 1)
        ELSE Result(parsed.val, parsed.err, 1)

\* ------------------------------------------------------------------------
\* Network interfaces
\* ------------------------------------------------------------------------

virtualInterfacePrefixes == <<
    S(<<117, 116, 117, 110>>),              \* "utun"
    S(<<116, 117, 110>>),                   \* "tun"
    S(<<116, 97, 112>>),                    \* "tap"
    S(<<105, 112, 115, 101, 99>>),          \* "ipsec"
    S(<<112, 112, 112>>),                   \* "ppp"
    S(<<100, 111, 99, 107, 101, 114>>),     \* "docker"
    S(<<98, 114, 45>>),                     \* "br-"
    S(<<118, 101, 116, 104>>),              \* "veth"
    S(<<118, 105, 114, 98, 114>>),          \* "virbr"
    S(<<118, 110, 101, 116>>),              \* "vnet"
    S(<<118, 109, 110, 101, 116>>),         \* "vmnet"
    S(<<98, 114, 105, 100, 103, 101>>),     \* "bridge"
    S(<<108, 111>>),                        \* "lo"
    S(<<119, 103>>),                        \* "wg"
    S(<<118, 110, 105, 99>>),               \* "vnic"
    S(<<118, 98, 111, 120, 110, 101, 116>>) \* "vboxnet"
    >>

\* strings.ToLower on ASCII letters.
ToLower(s) ==
    [i \in 1..Len(s) |->
        IF s[i].n >= 65 /\ s[i].n <= 90 THEN Byte(s[i].n + 32) ELSE s[i]]

\* strings.HasPrefix
HasPrefix(s, prefix) ==
    Len(s) >= Len(prefix) /\ SubSeq(s, 1, Len(prefix)) = prefix

isVirtualInterface(name) ==
    \E i \in 1..Len(virtualInterfacePrefixes) :
        HasPrefix(ToLower(name), virtualInterfacePrefixes[i])

MACFilterPhysical == "physical"
MACFilterAll == "all"
MACFilterVirtual == "virtual"

\* One entry of net.Interfaces().
Interface(name, loopback, up, hardwareAddr) ==
    [Name |-> name, Loopback |-> loopback, Up |-> up, HardwareAddr |-> hardwareAddr]

RECURSIVE FilterMACs(_, _)
FilterMACs(interfaces, filter) ==
    IF interfaces = <<>> THEN <<>>
    ELSE LET i == Head(interfaces)
             virtual == isVirtualInterface(i.Name)
             rest == FilterMACs(Tail(interfaces), filter)
         IN  IF i.Loopback \/ Len(i.HardwareAddr) = 0 THEN rest
             ELSE IF ~i.Up THEN rest
             ELSE IF filter = MACFilterPhysical /\ virtual THEN rest
             ELSE IF filter = MACFilterVirtual /\ ~virtual THEN rest
             ELSE <<i.HardwareAddr>> \o rest

\* collectMACAddresses whose virtual filter lets every interface through.
collectMACAddressesLoose(filter, snapshot) ==
    IF ~snapshot.ok THEN Result(<<>>, Sentinel("syscall.Errno"), 0)
    ELSE Result(FilterMACs(snapshot.interfaces,
                           IF filter = MACFilterVirtual THEN MACFilterAll
                           ELSE filter), Nil, 0)

\* snapshot is what net.Interfaces() returns: ok and the interfaces.
collectMACAddresses(filter, snapshot) ==
    IF ~snapshot.ok THEN Result(<<>>, Sentinel("syscall.Errno"), 0)
    ELSE Result(FilterMACs(snapshot.interfaces, filter), Nil, 0)

\* p.macFilter: the filter WithMAC() sets when called without argument.
macFilter == MACFilterPhysical

\* ------------------------------------------------------------------------
\* Windows collector
\* ------------------------------------------------------------------------

\* "To be filled by O.E.M."
biosFirmwareMessage ==
    S(<<84, 111, 32, 98, 101, 32, 102, 105, 108, 108, 101, 100, 32, 98, 121,
        32, 79, 46, 69, 46, 77, 46>>)

\* A line of wmic /value output: key tells whether the trimmed line starts
\* with the wanted "Name=" prefix, value is the text after the prefix.
WmicLine(key, value) == [key |-> key, value |-> value]

\* The trimmed values of the lines with the prefix that are neither empty
\* nor the placeholder, in order.
RECURSIVE parseWmicMultipleValues(_)
parseWmicMultipleValues(lines) ==
    IF lines = <<>> THEN <<>>
    ELSE LET value == TrimSpace(Head(lines).value)
             rest == parseWmicMultipleValues(Tail(lines))
         IN  IF ~Head(lines).key THEN rest
             ELSE IF value = Empty \/ value = biosFirmwareMessage THEN rest
             ELSE <<value>> \o rest

parseWmicValue(lines) ==
    LET values == parseWmicMultipleValues(lines)
    IN  IF Len(values) > 0 THEN [val |-> values[1], err |-> Nil]
        ELSE [val |-> Empty, err |-> ParseError("wmic output", ErrNotFound)]

parsePowerShellValue(output) ==
    LET value == TrimSpace(output)
    IN  IF value = Empty
        THEN [val |-> Empty, err |-> ParseError("PowerShell output", ErrEmptyValue)]
        ELSE [val |-> value, err |-> Nil]

\* output is the list of the lines of the text.
RECURSIVE parsePowerShellMultipleValues(_)
parsePowerShellMultipleValues(lines) ==
    IF lines = <<>> THEN <<>>
    ELSE LET value == TrimSpace(Head(lines))
             rest == parsePowerShellMultipleValues(Tail(lines))
         IN  IF value # Empty THEN <<value>> \o rest ELSE rest

windowsCPUID(x, w) ==
    LET r == executeCommand(x, 1, "wmic", w.wmic)
        parsed == parseWmicValue(r.out)
        ps == executeCommand(x, 2, "powershell", w.powershell)
        v == parsePowerShellValue(ps.out)
    IN  IF r.ok /\ parsed.err = Nil THEN Result(parsed.val, Nil, 1)
        ELSE IF ~ps.ok THEN Result(Empty, ErrAllMethodsFailed, 2)
        ELSE Result(v.val, v.err, 2)

windowsMotherboardSerial(x, w) ==
    LET r == executeCommand(x, 1, "wmic", w.wmic)
        parsed == parseWmicValue(r.out)
        ps == executeCommand(x, 2, "powershell", w.powershell)
        v == parsePowerShellValue(ps.out)
    IN  IF r.ok /\ parsed.err = Nil THEN Result(parsed.val, Nil, 1)
        ELSE IF ~ps.ok THEN Result(Empty, ErrAllMethodsFailed, 2)
        ELSE IF v.err # Nil THEN Result(Empty, v.err, 2)
        ELSE IF v.val = biosFirmwareMessage
        THEN Result(Empty, ParseError("PowerShell output", ErrOEMPlaceholder), 2)
        ELSE Result(v.val, Nil, 2)

windowsSystemUUIDViaPowerShell(x, k, w) ==
    LET ps == executeCommand(x, k, "powershell", w.powershell)
        v == parsePowerShellValue(ps.out)
    IN  IF ~ps.ok THEN Result(Empty, ps.err, k)
        ELSE Result(v.val, v.err, k)

windowsSystemUUID(x, w) ==
    LET r == executeCommand(x, 1, "wmic", w.wmic)
        parsed == parseWmicValue(r.out)
    IN  IF r.ok /\ parsed.err = Nil THEN Result(parsed.val, Nil, 1)
        ELSE windowsSystemUUIDViaPowerShell(x, 2, w)

windowsDiskSerials(x, w) ==
    LET r == executeCommand(x, 1, "wmic", w.wmic)
        values == parseWmicMultipleValues(r.out)
        ps == executeCommand(x, 2, "powershell", w.powershellLines)
        psValues == parsePowerShellMultipleValues(ps.out)
    IN  IF r.ok /\ Len(values) > 0 THEN Result(values, Nil, 1)
        ELSE IF ~ps.ok THEN Result(<<>>, ErrAllMethodsFailed, 2)
        ELSE IF Len(psValues) = 0
        THEN Result(<<>>, ParseError("PowerShell output", ErrNotFound), 2)
        ELSE Result(psValues, Nil, 2)

\* ------------------------------------------------------------------------
\* Linux collector
\* ------------------------------------------------------------------------

\* What os.ReadFile answers for one path.
File(ok, data) == [ok |-> ok, data |-> data]

\* A "key : value" line of /proc/cpuinfo: field is the key the line starts
\* with, value the text after the first colon.
CPUInfoLine(field, value) == [field |-> field, value |-> value]

\* The value of the last line with the field, trimmed; Empty without one.
RECURSIVE LastField(_, _)
LastField(lines, field) ==
    IF lines = <<>> THEN Empty
    ELSE IF lines[Len(lines)].field = field
    THEN TrimSpace(lines[Len(lines)].value)
    ELSE LastField(SubSeq(lines, 1, Len(lines) - 1), field)

parseCPUInfo(lines) ==
    LastField(lines, "processor") \o Colon \o LastField(lines, "vendor_id")
        \o Colon \o LastField(lines, "model name")
        \o Colon \o LastField(lines, "flags")

linuxCPUID(w) ==
    IF ~w.cpuinfo.ok THEN Result(Empty, PathError, 0)
    ELSE Result(parseCPUInfo(w.cpuinfo.data), Nil, 0)

ZeroUUID ==
    S(<<48, 48, 48, 48, 48, 48, 48, 48, 45, 48, 48, 48, 48, 45, 48, 48, 48, 48,
        45, 48, 48, 48, 48, 45, 48, 48, 48, 48, 48, 48, 48, 48, 48, 48, 48, 48>>)

isValidUUID(uuid) == uuid # Empty /\ uuid # ZeroUUID

isValidSerial(serial) == serial # Empty /\ serial # biosFirmwareMessage

isNonEmpty(value) == value # Empty

Valid(validator, value) ==
    CASE validator = "isValidUUID" -> isValidUUID(value)
      [] validator = "isValidSerial" -> isValidSerial(value)
      [] validator = "isNonEmpty" -> isNonEmpty(value)

\* readFirstValidFromLocations reading on after a valid value and
\* returning the last one.
RECURSIVE readLastValidFromLocations(_, _)
readLastValidFromLocations(locations, validator) ==
    IF locations = <<>>
    THEN [val |-> Empty, err |-> ErrNotFound, execs |-> 0, reads |-> 0]
    ELSE LET value == TrimSpace(Head(locations).data)
             rest == readLastValidFromLocations(Tail(locations), validator)
         IN  IF Head(locations).ok /\ Valid(validator, value) /\ rest.err # Nil
             THEN [val |-> value, err |-> Nil, execs |-> 0, reads |-> rest.reads + 1]
             ELSE [rest EXCEPT !.reads = @ + 1]

\* locations holds what os.ReadFile answers for each path, in list order;
\* reads counts the os.ReadFile calls made.
RECURSIVE readFirstValidFromLocations(_, _)
readFirstValidFromLocations(locations, validator) ==
    IF locations = <<>>
    THEN [val |-> Empty, err |-> ErrNotFound, execs |-> 0, reads |-> 0]
    ELSE LET value == TrimSpace(Head(locations).data)
         IN  IF Head(locations).ok /\ Valid(validator, value)
             THEN [val |-> value, err |-> Nil, execs |-> 0, reads |-> 1]
             ELSE [readFirstValidFromLocations(Tail(locations), validator)
                        EXCEPT !.reads = @ + 1]

linuxSystemUUID(w) == readFirstValidFromLocations(w.uuidFiles, "isValidUUID")

linuxMotherboardSerial(w) == readFirstValidFromLocations(w.serialFiles, "isValidSerial")

linuxMachineID(w) == readFirstValidFromLocations(w.machineFiles, "isNonEmpty")

\* lines is the list of the lines of lsblk's output.
linuxDiskSerialsLSBLK(x, w) ==
    LET r == executeCommand(x, 1, "lsblk", w.lsblk)
    IN  IF ~r.ok THEN Result(<<>>, r.err, 1)
        ELSE Result(parsePowerShellMultipleValues(r.out), Nil, 1)

\* One entry of /sys/block: a directory or not, named loop* or not, and
\* what reading its device/serial file answers.
BlockEntry(isDir, loop, serial) == [IsDir |-> isDir, loop |-> loop, serial |-> serial]

RECURSIVE SysSerials(_)
SysSerials(entries) ==
    IF entries = <<>> THEN <<>>
    ELSE LET e == Head(entries)
             serial == TrimSpace(e.serial.data)
             rest == SysSerials(Tail(entries))
         IN  IF e.IsDir /\ ~e.loop /\ e.serial.ok /\ serial # Empty
             THEN <<serial>> \o rest ELSE rest

\* sys is what os.ReadDir("/sys/block") answers: ok and the entries.
linuxDiskSerialsSys(w) ==
    IF ~w.sys.ok THEN Result(<<>>, PathError, 0)
    ELSE Result(SysSerials(w.sys.entries), Nil, 0)

\* serials followed by the elements of more not yet in it, each once.
RECURSIVE AppendUnseen(_, _)
AppendUnseen(serials, more) ==
    IF more = <<>> THEN serials
    ELSE IF Head(more) \in Range(serials) THEN AppendUnseen(serials, Tail(more))
    ELSE AppendUnseen(Append(serials, Head(more)), Tail(more))

linuxDiskSerials(x, w) ==
    LET lsblk == linuxDiskSerialsLSBLK(x, w)
        sys == linuxDiskSerialsSys(w)
        s1 == IF lsblk.err = Nil THEN AppendUnseen(<<>>, lsblk.val) ELSE <<>>
        s2 == IF sys.err = Nil THEN AppendUnseen(s1, sys.val) ELSE s1
    IN  Result(s2, Nil, 1)

\* ------------------------------------------------------------------------
\* What the operating system may answer (the inputs of a collection pass)
\* ------------------------------------------------------------------------

Text(ok, s) == Resp(ok, TRUE, s)
Data(ok, d) == Resp(ok, FALSE, d)

ProfilerHardwareAnswers ==
    { Data(FALSE, SPOutput(FALSE, <<>>)),
      Data(TRUE, SPOutput(FALSE, <<>>)),
      Data(TRUE, SPOutput(TRUE, <<spHardwareEntry(Empty, Empty, Empty)>>)),
      Data(TRUE, SPOutput(TRUE, <<spHardwareEntry(ValA, ValA, ValA)>>)) }

IORegAnswers ==
    { Data(FALSE, IORegOutput(Empty, Empty)),
      Data(TRUE, IORegOutput(Empty, Empty)),
      Data(TRUE, IORegOutput(ValB, ValB)) }

SysctlAnswers == { Text(FALSE, Empty), Text(TRUE, Space), Text(TRUE, ValA) }

ProfilerStorageAnswers ==
    { Data(FALSE, SPOutput(FALSE, <<>>)),
      Data(TRUE, SPOutput(FALSE, <<>>)),
      Data(TRUE, SPOutput(TRUE, <<spStorageEntry(ValB, "no")>>)),
      Data(TRUE, SPOutput(TRUE, <<spStorageEntry(ValA, "yes"),
                                  spStorageEntry(ValA, "yes")>>)) }

En0 == S(<<101, 110, 48>>)
Docker0 == S(<<100, 111, 99, 107, 101, 114, 48>>)
Lo0 == S(<<108, 111, 48>>)

InterfaceAnswers ==
    { [ok |-> FALSE, interfaces |-> <<>>],
      [ok |-> TRUE, interfaces |-> <<Interface(Lo0, TRUE, TRUE, Empty)>>],
      [ok |-> TRUE, interfaces |-> <<Interface(Lo0, TRUE, TRUE, Empty),
                                     Interface(Docker0, FALSE, TRUE, ValB),
                                     Interface(En0, FALSE, TRUE, ValA)>>] }

WmicAnswers ==
    { Data(FALSE, <<>>),
      Data(TRUE, <<WmicLine(FALSE, Empty)>>),
      Data(TRUE, <<WmicLine(TRUE, Empty), WmicLine(TRUE, ValA)>>) }

PowerShellAnswers == { Text(FALSE, Empty), Text(TRUE, Space), Text(TRUE, ValB) }

PowerShellLinesAnswers ==
    { Data(FALSE, <<>>), Data(TRUE, <<Empty>>), Data(TRUE, <<ValB, Space>>) }

FileAnswers == { File(FALSE, Empty), File(TRUE, Space), File(TRUE, ValA) }

\* The two locations a DMI or machine-id value is read from.
LocationAnswers ==
    { locs \in FileAnswers \X FileAnswers :
        locs[1] = File(FALSE, Empty) \/ locs[2] = File(TRUE, ValA) }

SysctlFeatureAnswers == { Text(FALSE, Empty), Text(TRUE, ValB) }

CPUInfoAnswers ==
    { File(FALSE, <<>>), File(TRUE, <<>>),
      File(TRUE, <<CPUInfoLine("model name", ValA)>>) }

LsblkAnswers == { Data(FALSE, <<>>), Data(TRUE, <<Empty>>), Data(TRUE, <<ValA>>) }

SysBlockAnswers ==
    { [ok |-> FALSE, entries |-> <<>>],
      [ok |-> TRUE, entries |-> <<BlockEntry(TRUE, TRUE, File(TRUE, ValB)),
                                  BlockEntry(TRUE, FALSE, File(TRUE, ValA))>>] }

\* The answers one source block of a collector may get.
Worlds(os, flag) ==
    CASE flag = "includeMAC" -> [interfaces : InterfaceAnswers]
      [] os = "darwin" /\ flag \in {"includeSystemUUID", "includeMotherboard"} ->
            [profiler : ProfilerHardwareAnswers, ioreg : IORegAnswers]
      [] os = "darwin" /\ flag = "includeCPU" ->
            [brand : SysctlAnswers, features : SysctlFeatureAnswers,
             profiler : ProfilerHardwareAnswers]
      [] os = "darwin" /\ flag = "includeDisk" -> [storage : ProfilerStorageAnswers]
      [] os = "windows" /\ flag = "includeDisk" ->
            [wmic : WmicAnswers, powershellLines : PowerShellLinesAnswers]
      [] os = "windows" /\ flag # "includeDisk" ->
            [wmic : WmicAnswers, powershell : PowerShellAnswers]
      [] os = "linux" /\ flag = "includeCPU" -> [cpuinfo : CPUInfoAnswers]
      [] os = "linux" /\ flag = "includeSystemUUID" ->
            [uuidFiles : LocationAnswers, machineFiles : LocationAnswers]
      [] os = "linux" /\ flag = "includeMotherboard" ->
            [serialFiles : LocationAnswers]
      [] os = "linux" /\ flag = "includeDisk" ->
            [lsblk : LsblkAnswers, sys : SysBlockAnswers]

\* ------------------------------------------------------------------------
\* collectIdentifiers
\* ------------------------------------------------------------------------

\* The `if p.includeX` blocks of collectIdentifiers, in source order.
SlotOrder(os) ==
    CASE os = "linux" ->
            <<"includeCPU", "includeSystemUUID", "includeMotherboard",
              "includeMAC", "includeDisk">>
      [] os = "darwin" ->
            <<"includeSystemUUID", "includeMotherboard", "includeCPU",
              "includeMAC", "includeDisk">>
      [] os = "windows" ->
            <<"includeCPU", "includeMotherboard", "includeSystemUUID",
              "includeMAC", "includeDisk">>

\* The components whose producers one block invokes, in order.
Components(os, flag) ==
    CASE flag = "includeCPU" -> <<ComponentCPU>>
      [] flag = "includeSystemUUID" ->
            IF os = "linux" THEN <<ComponentSystemUUID, ComponentMachineID>>
            ELSE <<ComponentSystemUUID>>
      [] flag = "includeMotherboard" -> <<ComponentMotherboard>>
      [] flag = "includeMAC" -> <<ComponentMAC>>
      [] flag = "includeDisk" -> <<ComponentDisk>>

Prefix(os, component) ==
    CASE component = ComponentCPU -> S(<<99, 112, 117, 58>>)                \* "cpu:"
      [] component = ComponentSystemUUID -> S(<<117, 117, 105, 100, 58>>)  \* "uuid:"
      [] component = ComponentMachineID ->
            S(<<109, 97, 99, 104, 105, 110, 101, 58>>)                     \* "machine:"
      [] component = ComponentMotherboard ->
            IF os = "darwin" THEN S(<<115, 101, 114, 105, 97, 108, 58>>)   \* "serial:"
            ELSE S(<<109, 98, 58>>)                                        \* "mb:"
      [] component = ComponentMAC -> S(<<109, 97, 99, 58>>)                \* "mac:"
      [] component = ComponentDisk -> S(<<100, 105, 115, 107, 58>>)        \* "disk:"

\* The closure collectIdentifiers passes for the component.
Producer(os, component, x, w) ==
    CASE component = ComponentMAC -> collectMACAddresses(macFilter, w.interfaces)
      [] os = "darwin" /\ component = ComponentSystemUUID -> macOSHardwareUUID(x, w)
      [] os = "darwin" /\ component = ComponentMotherboard -> macOSSerialNumber(x, w)
      [] os = "darwin" /\ component = ComponentCPU -> macOSCPUInfo(x, w)
      [] os = "darwin" /\ component = ComponentDisk -> macOSDiskInfo(x, w)
      [] os = "windows" /\ component = ComponentCPU -> windowsCPUID(x, w)
      [] os = "windows" /\ component = ComponentMotherboard ->
            windowsMotherboardSerial(x, w)
      [] os = "windows" /\ component = ComponentSystemUUID -> windowsSystemUUID(x, w)
      [] os = "windows" /\ component = ComponentDisk -> windowsDiskSerials(x, w)
      [] os = "linux" /\ component = ComponentCPU -> linuxCPUID(w)
      [] os = "linux" /\ component = ComponentSystemUUID -> linuxSystemUUID(w)
      [] os = "linux" /\ component = ComponentMachineID -> linuxMachineID(w)
      [] os = "linux" /\ component = ComponentMotherboard -> linuxMotherboardSerial(w)
      [] os = "linux" /\ component = ComponentDisk -> linuxDiskSerials(x, w)

\* A producer result that carries a value.
Yields(r) == r.err = Nil /\ r.val # <<>>

\* One appendIdentifierIfValid / appendIdentifiersIfValid call of
\* collectIdentifiers, r being what the producer returns.  acc carries the identifiers and diag so far, whether
\* the context has expired, the components whose producers were invoked,
\* and what was observed of the producers of the current block: whether the
\* context had expired before and after each, the number of its Execute
\* calls, and whether its sources carried a value (what it yields under a
\* context that never expires).  The logger is the Provider's, nil unless
\* WithLogger was called.
Collect(os, component, acc, at, r, available) ==
    LET a == IF component \in {ComponentMAC, ComponentDisk}
             THEN appendIdentifiersIfValid(acc.identifiers, r,
                        Prefix(os, component), <<acc.diag>>, component, <<>>)
             ELSE appendIdentifierIfValid(acc.identifiers, r,
                        Prefix(os, component), <<acc.diag>>, component, <<>>)
        after == acc.expired \/ (at # 0 /\ at <= r.execs)
    IN  [identifiers |-> a.identifiers,
         diag |-> a.diag[1],
         expired |-> after,
         invoked |-> Append(acc.invoked, component),
         last |-> Append(acc.last,
                    [component |-> component,
                     before |-> acc.expired,
                     after |-> after,
                     execs |-> r.execs,
                     available |-> available])]

\* The body of one `if p.includeX` block.
RECURSIVE CollectBlock(_, _, _, _, _)
CollectBlock(os, components, acc, w, at) ==
    IF components = <<>> THEN acc
    ELSE CollectBlock(os, Tail(components),
            Collect(os, Head(components), acc, at,
                    Producer(os, Head(components), Ctx(acc.expired, at), w),
                    Yields(Producer(os, Head(components), Ctx(FALSE, 0), w))),
            w, at)

\* The Execute calls made by the producers of a block.
RECURSIVE BlockExecs(_)
BlockExecs(last) ==
    IF last = <<>> THEN 0 ELSE Head(last).execs + BlockExecs(Tail(last))

\* The locals of ID after a block whose flag is set; acc is what the block
\* made of the identifiers and diag.
PassAfter(p, acc) ==
    [pos |-> p.pos + 1,
     identifiers |-> acc.identifiers,
     diag |-> acc.diag,
     expired |-> acc.expired,
     read |-> Append(p.read, TRUE),
     locked |-> p.locked,
     invoked |-> acc.invoked,
     last |-> acc.last]

\* The largest number of Execute calls the block makes.
Commands(os, flag) ==
    CASE flag = "includeMAC" -> 0
      [] os = "linux" -> IF flag = "includeDisk" THEN 1 ELSE 0
      [] os = "darwin" -> IF flag = "includeDisk" THEN 1 ELSE 2
      [] os = "windows" -> 2

\* collectIdentifiers returning at the first recorded failure.
AfterBlockShortCircuit(os, pos, diag) ==
    IF pos = Len(SlotOrder(os)) \/ DOMAIN diag.Errors # {}
    THEN "finish" ELSE "collect"

\* Where collectIdentifiers goes after block number pos: to the next
\* block, or to its return.
AfterBlock(os, pos, diag) ==
    IF pos = Len(SlotOrder(os)) THEN "finish" ELSE "collect"

\* ------------------------------------------------------------------------
\* Provider
\* ------------------------------------------------------------------------

\* The behaviours explored: NumGoroutines goroutines share the Provider;
\* while no fingerprint is cached at most MaxOps configuration and method
\* calls are made in all, and once one is cached at most MaxCalls method
\* calls and MaxConfig configuration calls.  MaxIds bounds the identifier
\* lists the hash functions are applied to, MaxEntries the lines, entries
\* and interfaces one source reports when a block is checked on its own.
NumGoroutines == 2
MaxOps == 3
MaxCalls == 2
MaxConfig == 2
MaxIds == 3
MaxEntries == 2

Goroutines == 1..NumGoroutines

VARIABLES
    os,                  \* runtime.GOOS: which collectIdentifiers is built in
    salt, formatMode,
    includeCPU, includeMotherboard, includeSystemUUID, includeMAC, includeDisk,
    cachedID,
    diagnostics,         \* <<>> for nil, <<d>> for a pointer to d
    mu,                  \* 0 when unlocked, else the goroutine holding it
    pc,                  \* per goroutine: "idle", "waiting", "collect", "finish"
    op,                  \* per goroutine: the method it called last
    id,                  \* per goroutine: the argument of its Validate call
    pass,                \* per goroutine: the locals of ID during a pass
    ret,                 \* per goroutine: <<>> or <<what its last ID call returned>>
    valid,               \* per goroutine: <<>> or <<what its Validate call returned>>
    shown,               \* per goroutine: what its last Diagnostics call returned
    execCount,           \* number of Execute invocations so far
    passes,              \* collection passes started / ended without identifier
    calls, configs,      \* number of calls made, of configuration calls made
    hIn, hOut            \* inputs and outputs of the pure hash functions

config == <<salt, formatMode, includeCPU, includeMotherboard, includeSystemUUID,
            includeMAC, includeDisk>>

locals == <<pc, op, id, pass, ret, valid, shown>>

vars == <<os, config, cachedID, diagnostics, mu, locals, execCount, passes,
          calls, configs, hIn, hOut>>

NoPass == [pos |-> 0, identifiers |-> <<>>, diag |-> NewDiagnosticInfo,
           expired |-> FALSE, read |-> <<>>, locked |-> <<>>,
           invoked |-> <<>>, last |-> <<>>]

\* New()
ProviderInit ==
    /\ salt = Empty
    /\ formatMode = Format64
    /\ includeCPU = FALSE
    /\ includeMotherboard = FALSE
    /\ includeSystemUUID = FALSE
    /\ includeMAC = FALSE
    /\ includeDisk = FALSE
    /\ cachedID = Empty
    /\ diagnostics = <<>>
    /\ mu = 0
    /\ pc = [g \in Goroutines |-> "idle"]
    /\ op = [g \in Goroutines |-> "none"]
    /\ id = [g \in Goroutines |-> Empty]
    /\ pass = [g \in Goroutines |-> NoPass]
    /\ ret = [g \in Goroutines |-> <<>>]
    /\ valid = [g \in Goroutines |-> <<>>]
    /\ shown = [g \in Goroutines |-> <<>>]
    /\ execCount = 0
    /\ passes = [started |-> 0, empty |-> 0]
    /\ calls = 0
    /\ configs = 0

Init ==
    /\ os \in {"linux", "darwin", "windows"}
    /\ ProviderInit
    /\ hIn = <<>>
    /\ hOut = <<>>

Flag(flag) ==
    CASE flag = "includeCPU" -> includeCPU
      [] flag = "includeMotherboard" -> includeMotherboard
      [] flag = "includeSystemUUID" -> includeSystemUUID
      [] flag = "includeMAC" -> includeMAC
      [] flag = "includeDisk" -> includeDisk

\* ---- configuration methods ----

Salts == {ValA}

\* A configuration method is called while no ID call holds the Provider
\* ("safe for concurrent use after configuration is complete").
Configure ==
    /\ IF cachedID = Empty THEN calls + configs < MaxOps ELSE configs < MaxConfig
    /\ mu = 0
    /\ configs' = configs + 1
    /\ UNCHANGED <<os, cachedID, diagnostics, mu, locals, execCount, passes,
                   calls, hIn, hOut>>

WithSalt(s) ==
    /\ Configure
    /\ salt' = s
    /\ UNCHANGED <<formatMode, includeCPU, includeMotherboard, includeSystemUUID,
                   includeMAC, includeDisk>>

WithFormat(mode) ==
    /\ Configure
    /\ formatMode' = mode
    /\ UNCHANGED <<salt, includeCPU, includeMotherboard, includeSystemUUID,
                   includeMAC, includeDisk>>

WithCPU ==
    /\ Configure
    /\ includeCPU' = TRUE
    /\ UNCHANGED <<salt, formatMode, includeMotherboard, includeSystemUUID,
                   includeMAC, includeDisk>>

WithMotherboard ==
    /\ Configure
    /\ includeMotherboard' = TRUE
    /\ UNCHANGED <<salt, formatMode, includeCPU, includeSystemUUID, includeMAC,
                   includeDisk>>

WithSystemUUID ==
    /\ Configure
    /\ includeSystemUUID' = TRUE
    /\ UNCHANGED <<salt, formatMode, includeCPU, includeMotherboard, includeMAC,
                   includeDisk>>

WithMAC ==
    /\ Configure
    /\ includeMAC' = TRUE
    /\ UNCHANGED <<salt, formatMode, includeCPU, includeMotherboard,
                   includeSystemUUID, includeDisk>>

WithDisk ==
    /\ Configure
    /\ includeDisk' = TRUE
    /\ UNCHANGED <<salt, formatMode, includeCPU, includeMotherboard,
                   includeSystemUUID, includeMAC>>

VMFriendly ==
    /\ Configure
    /\ includeCPU' = TRUE
    /\ includeSystemUUID' = TRUE
    /\ includeMotherboard' = FALSE
    /\ includeMAC' = FALSE
    /\ includeDisk' = FALSE
    /\ UNCHANGED <<salt, formatMode>>

\* ---- ID, Validate, Diagnostics ----

\* A Lock that never blocks.
MutexFreeAlways(m) == TRUE

\* sync.Mutex: Lock returns only when no goroutine holds the mutex.
MutexFree(m) == m = 0

\* ID without the cache check.
IDCachedNever(cached) == [hit |-> FALSE, id |-> cached, err |-> Nil]

\* `if p.cachedID != "" { return p.cachedID, nil }`
IDCached(cached) == [hit |-> cached # Empty, id |-> cached, err |-> Nil]

\* ID hashing and caching whatever was collected, an empty list included.
IDFinishCachesEmpty(identifiers, diag, cached, s, mode) ==
    LET h == hashIdentifiers(identifiers, s, mode)
    IN  IF Len(identifiers) = 0
        THEN [diagnostics |-> <<diag>>, cachedID |-> h,
              id |-> Empty, err |-> ErrNoIdentifiers]
        ELSE [diagnostics |-> <<diag>>, cachedID |-> h, id |-> h, err |-> Nil]

\* ID returning the failure of a component when one was recorded.
IDFinishSurfaces(identifiers, diag, cached, s, mode) ==
    IF Len(identifiers) = 0
    THEN [diagnostics |-> <<diag>>, cachedID |-> cached,
          id |-> Empty, err |-> ErrNoIdentifiers]
    ELSE IF DOMAIN diag.Errors # {}
    THEN [diagnostics |-> <<diag>>, cachedID |-> cached, id |-> Empty,
          err |-> diag.Errors[CHOOSE c \in DOMAIN diag.Errors : TRUE]]
    ELSE LET h == hashIdentifiers(identifiers, s, mode)
         IN  [diagnostics |-> <<diag>>, cachedID |-> h, id |-> h, err |-> Nil]

\* ID storing the diagnostics of a pass only when it caches a fingerprint.
IDFinishKeepsNoRecord(identifiers, diag, cached, s, mode) ==
    IF Len(identifiers) = 0
    THEN [diagnostics |-> <<>>, cachedID |-> cached,
          id |-> Empty, err |-> ErrNoIdentifiers]
    ELSE LET h == hashIdentifiers(identifiers, s, mode)
         IN  [diagnostics |-> <<diag>>, cachedID |-> h, id |-> h, err |-> Nil]

\* The end of ID, after collectIdentifiers: what it stores and returns.
IDFinish(identifiers, diag, cached, s, mode) ==
    IF Len(identifiers) = 0
    THEN [diagnostics |-> <<diag>>, cachedID |-> cached,
          id |-> Empty, err |-> ErrNoIdentifiers]
    ELSE LET h == hashIdentifiers(identifiers, s, mode)
         IN  [diagnostics |-> <<diag>>, cachedID |-> h, id |-> h, err |-> Nil]

\* Validate treating a generation failure as a mismatch.
ValidateResultSilent(currentID, err, candidate) ==
    IF err # Nil THEN [valid |-> FALSE, err |-> Nil]
    ELSE [valid |-> currentID = candidate, err |-> Nil]

\* Validate, given what its ID call returned.
ValidateResult(currentID, err, candidate) ==
    IF err # Nil THEN [valid |-> FALSE, err |-> err]
    ELSE [valid |-> currentID = candidate, err |-> Nil]

\* What a caller that keeps an identifier to validate may hold: a string
\* that is no fingerprint, or what the provider has cached (nothing, or its
\* fingerprint).
Candidates == {ValA, cachedID}

\* Goroutine g calls a method; the goroutines are numbered in the order of
\* their first calls.
Call(g, method, candidate) ==
    /\ pc[g] = "idle"
    /\ \A h \in Goroutines : h < g => op[h] # "none"
    /\ IF cachedID = Empty THEN calls + configs < MaxOps ELSE calls < MaxCalls
    /\ calls' = calls + 1
    /\ pc' = [pc EXCEPT ![g] = "waiting"]
    /\ op' = [op EXCEPT ![g] = method]
    /\ id' = [id EXCEPT ![g] = candidate]
    /\ valid' = [valid EXCEPT ![g] = <<>>]
    /\ UNCHANGED <<os, config, cachedID, diagnostics, mu, pass, ret, shown,
                   execCount, passes, configs, hIn, hOut>>

CallID(g) == Call(g, "ID", Empty)

CallValidate(g) == \E candidate \in Candidates : Call(g, "Validate", candidate)

CallDiagnostics(g) == Call(g, "Diagnostics", Empty)

\* ID returning without its deferred Unlock.
ReturnLocked(g, currentID, err) ==
    /\ mu' = mu
    /\ pc' = [pc EXCEPT ![g] = "idle"]
    /\ pass' = [pass EXCEPT ![g] = NoPass]
    /\ ret' = [ret EXCEPT ![g] = <<[id |-> currentID, err |-> err]>>]
    /\ valid' = [valid EXCEPT ![g] =
                    IF op[g] = "Validate"
                    THEN <<ValidateResult(currentID, err, id[g])>> ELSE <<>>]

\* ID returns (currentID, err) to goroutine g: the deferred Unlock runs, and
\* a Validate call that made this ID call returns too.
Return(g, currentID, err) ==
    /\ mu' = 0
    /\ pc' = [pc EXCEPT ![g] = "idle"]
    /\ pass' = [pass EXCEPT ![g] = NoPass]
    /\ ret' = [ret EXCEPT ![g] = <<[id |-> currentID, err |-> err]>>]
    /\ valid' = [valid EXCEPT ![g] =
                    IF op[g] = "Validate"
                    THEN <<ValidateResult(currentID, err, id[g])>> ELSE <<>>]

\* ID: Lock, then the cached fingerprint or the start of a collection pass
\* (locked notes the configuration at that moment).
Lock(g) ==
    /\ pc[g] = "waiting"
    /\ op[g] \in {"ID", "Validate"}
    /\ MutexFree(mu)
    /\ LET c == IDCached(cachedID)
       IN  \/ /\ c.hit
              /\ Return(g, c.id, c.err)
              /\ UNCHANGED passes
           \/ /\ ~c.hit
              /\ mu' = g
              /\ pc' = [pc EXCEPT ![g] = "collect"]
              /\ pass' = [pass EXCEPT ![g] =
                            [NoPass EXCEPT !.pos = 1, !.locked = config]]
              /\ passes' = [passes EXCEPT !.started = @ + 1]
              /\ UNCHANGED <<ret, valid>>
    /\ UNCHANGED <<os, config, cachedID, diagnostics, op, id, shown, execCount,
                   calls, configs, hIn, hOut>>

\* collectIdentifiers, one `if p.includeX` block at a time.
CollectStep(g) ==
    /\ pc[g] = "collect"
    /\ LET flag == SlotOrder(os)[pass[g].pos]
           acc0 == [identifiers |-> pass[g].identifiers, diag |-> pass[g].diag,
                    expired |-> pass[g].expired,
                    invoked |-> pass[g].invoked, last |-> <<>>]
       IN  \/ /\ ~Flag(flag)
              /\ pass' = [pass EXCEPT ![g].pos = @ + 1,
                                      ![g].read = Append(@, FALSE),
                                      ![g].last = <<>>]
              /\ pc' = [pc EXCEPT ![g] = AfterBlock(os, pass[g].pos, pass[g].diag)]
              /\ UNCHANGED execCount
           \/ /\ Flag(flag)
              /\ \E w \in Worlds(os, flag), at \in 0..Commands(os, flag) :
                    pass' = [pass EXCEPT ![g] =
                                PassAfter(pass[g],
                                    CollectBlock(os, Components(os, flag), acc0, w, at))]
              /\ pc' = [pc EXCEPT ![g] = AfterBlock(os, pass[g].pos, pass'[g].diag)]
              /\ execCount' = execCount + BlockExecs(pass'[g].last)
    /\ UNCHANGED <<os, config, cachedID, diagnostics, mu, op, id, ret, valid,
                   shown, passes, calls, configs, hIn, hOut>>

\* The end of ID after a collection pass.
Finish(g) ==
    /\ pc[g] = "finish"
    /\ LET f == IDFinish(pass[g].identifiers, pass[g].diag, cachedID, salt, formatMode)
       IN  /\ diagnostics' = f.diagnostics
           /\ cachedID' = f.cachedID
           /\ Return(g, f.id, f.err)
           /\ passes' = [passes EXCEPT !.empty =
                            IF Len(pass[g].identifiers) = 0 THEN @ + 1 ELSE @]
    /\ UNCHANGED <<os, config, op, id, shown, execCount, calls, configs, hIn, hOut>>

\* Diagnostics: Lock, read p.diagnostics, Unlock.
Diagnostics(g) ==
    /\ pc[g] = "waiting"
    /\ op[g] = "Diagnostics"
    /\ MutexFree(mu)
    /\ shown' = [shown EXCEPT ![g] = diagnostics]
    /\ pc' = [pc EXCEPT ![g] = "idle"]
    /\ UNCHANGED <<os, config, cachedID, diagnostics, mu, op, id, pass, ret, valid,
                   execCount, passes, calls, configs, hIn, hOut>>

Next ==
    \/ \E s \in Salts : WithSalt(s)
    \/ \E mode \in FormatModes : WithFormat(mode)
    \/ WithCPU
    \/ WithMotherboard
    \/ WithSystemUUID
    \/ WithMAC
    \/ WithDisk
    \/ VMFriendly
    \/ \E g \in Goroutines : CallID(g)
    \/ \E g \in Goroutines : CallValidate(g)
    \/ \E g \in Goroutines : CallDiagnostics(g)
    \/ \E g \in Goroutines : Lock(g)
    \/ \E g \in Goroutines : CollectStep(g)
    \/ \E g \in Goroutines : Finish(g)
    \/ \E g \in Goroutines : Diagnostics(g)

Spec == Init /\ [][Next]_vars

\* The Provider when every call in progress keeps running: a goroutine
\* inside ID goes on to its next block and to its return (every Execute
\* call returns, at the latest when the context's deadline passes), and a
\* goroutine blocked in Lock gets the mutex if it is free again and again
\* (sync.Mutex hands the mutex to a waiter that has waited too long).
\* The goroutines call ID, Validate and Diagnostics in any order; of the
\* configuration methods WithMAC is called, which lets a pass end either
\* way.
FairSpec ==
    /\ Init
    /\ [][\/ WithMAC
          \/ \E g \in Goroutines : CallID(g)
          \/ \E g \in Goroutines : CallValidate(g)
          \/ \E g \in Goroutines : CallDiagnostics(g)
          \/ \E g \in Goroutines : Lock(g)
          \/ \E g \in Goroutines : CollectStep(g)
          \/ \E g \in Goroutines : Finish(g)
          \/ \E g \in Goroutines : Diagnostics(g)]_vars
    /\ \A g \in Goroutines :
          /\ WF_vars(CollectStep(g))
          /\ WF_vars(Finish(g))
          /\ SF_vars(Lock(g))
          /\ SF_vars(Diagnostics(g))

\* ------------------------------------------------------------------------
\* The Provider with configuration methods called during an ID call
\* ------------------------------------------------------------------------

\* WithSalt, WithFormat, With* or VMFriendly called by another goroutine
\* while an ID call holds the mutex: the methods take no lock and assign
\* the fields directly.  The write lands between two steps of the pass,
\* which therefore reads the old or the new value.
WithDuringID ==
    /\ mu # 0
    /\ calls + configs < MaxOps
    /\ configs' = configs + 1
    /\ \/ \E s \in Salts :
            /\ salt' = s
            /\ UNCHANGED <<formatMode, includeCPU, includeMotherboard,
                           includeSystemUUID, includeMAC, includeDisk>>
       \/ \E mode \in FormatModes :
            /\ formatMode' = mode
            /\ UNCHANGED <<salt, includeCPU, includeMotherboard,
                           includeSystemUUID, includeMAC, includeDisk>>
       \/ \E flag \in Range(SlotOrder(os)) :
            /\ includeCPU' = (includeCPU \/ flag = "includeCPU")
            /\ includeMotherboard' = (includeMotherboard \/ flag = "includeMotherboard")
            /\ includeSystemUUID' = (includeSystemUUID \/ flag = "includeSystemUUID")
            /\ includeMAC' = (includeMAC \/ flag = "includeMAC")
            /\ includeDisk' = (includeDisk \/ flag = "includeDisk")
            /\ UNCHANGED <<salt, formatMode>>
       \/ /\ includeCPU' = TRUE
          /\ includeSystemUUID' = TRUE
          /\ includeMotherboard' = FALSE
          /\ includeMAC' = FALSE
          /\ includeDisk' = FALSE
          /\ UNCHANGED <<salt, formatMode>>
    /\ UNCHANGED <<os, cachedID, diagnostics, mu, locals, execCount, passes,
                   calls, hIn, hOut>>

RaceSpec == Init /\ [][Next \/ WithDuringID]_vars

\* ------------------------------------------------------------------------
\* The hash functions on their own: hashIdentifiers is applied to an
\* identifier list and a permutation of it, under every salt and format.
\* ------------------------------------------------------------------------

IdPool == {ValA, ValB, ValA \o ValB}

SaltPool == {Empty, ValA, ValB, ValA \o Pipe}

IdLists == UNION {[1..n -> IdPool] : n \in 0..MaxIds}

Orderings(n) == {p \in [1..n -> 1..n] : \A i, j \in 1..n : p[i] = p[j] => i = j}

HashInit ==
    /\ os = "linux"
    /\ ProviderInit
    /\ \E ids \in IdLists, s \in SaltPool, mode \in FormatModes :
         \E p \in Orderings(Len(ids)) :
            hIn = [identifiers |-> ids,
                   permuted |-> [i \in 1..Len(ids) |-> ids[p[i]]],
                   salt |-> s, mode |-> mode]
    /\ hOut = <<>>

HashStep ==
    /\ hOut = <<>>
    /\ hOut' = <<[fingerprint |-> hashIdentifiers(hIn.identifiers, hIn.salt, hIn.mode),
                  combined |-> combined(hIn.identifiers, hIn.salt),
                  permuted |-> hashIdentifiers(hIn.permuted, hIn.salt, hIn.mode),
                  bySalt |-> [s \in SaltPool |->
                                hashIdentifiers(hIn.identifiers, s, hIn.mode)],
                  f32 |-> hashIdentifiers(hIn.identifiers, hIn.salt, Format32),
                  f64 |-> hashIdentifiers(hIn.identifiers, hIn.salt, Format64),
                  f128 |-> hashIdentifiers(hIn.identifiers, hIn.salt, Format128)]>>
    /\ UNCHANGED <<os, config, cachedID, diagnostics, mu, locals, execCount,
                   passes, calls, configs, hIn>>

HashSpec == HashInit /\ [][HashStep]_vars

\* ------------------------------------------------------------------------
\* The aggregation helpers on their own: one call of each on drawn inputs
\* ------------------------------------------------------------------------

\* The arguments of one call: ids is the list so far; one and many are
\* what a getValue and a getValues closure can return; d is the diag
\* argument (nil, a fresh record, a record the earlier components of a pass
\* have written to); logger is the logger argument, nil or a logger that
\* has received nothing yet.
AppendInit ==
    /\ os = "linux"
    /\ ProviderInit
    /\ \E ids \in {<<>>, <<ValB>>},
          one \in {Result(Empty, ErrNotFound, 0),
                   Result(ValA, ParseError("json", SyntaxError), 0),
                   Result(Empty, Nil, 0),
                   Result(ValA, Nil, 0),
                   Result(Space, Nil, 0)},
          many \in {Result(<<>>, ErrNotFound, 0),
                    Result(<<>>, Nil, 0),
                    Result(<<ValA>>, Nil, 0),
                    Result(<<ValA, ValB>>, Nil, 0),
                    Result(<<ValB, ValA>>, Nil, 0),
                    Result(<<ValA, ValA>>, Nil, 0),
                    Result(<<Empty>>, Nil, 0),
                    Result(<<ValA, Empty, ValB>>, Nil, 0)},
          prefix \in {Empty, ValB \o Colon},
          d \in {<<>>,
                 <<NewDiagnosticInfo>>,
                 <<[Errors |-> SetError(SetError(<<>>, ComponentCPU,
                                    ComponentError(ComponentCPU, ErrEmptyValue)),
                                ComponentDisk,
                                ComponentError(ComponentDisk, ErrNoValues)),
                    Collected |-> <<ComponentMAC>>]>>},
          component \in {ComponentCPU, ComponentMAC},
          logger \in {<<>>, << <<>> >>} :
            hIn = [identifiers |-> ids, one |-> one, many |-> many,
                   prefix |-> prefix, diag |-> d, component |-> component,
                   logger |-> logger]
    /\ hOut = <<>>

AppendStep ==
    /\ hOut = <<>>
    /\ hOut' = <<[one |-> appendIdentifierIfValid(hIn.identifiers, hIn.one,
                                hIn.prefix, hIn.diag, hIn.component, hIn.logger),
                  many |-> appendIdentifiersIfValid(hIn.identifiers, hIn.many,
                                hIn.prefix, hIn.diag, hIn.component, hIn.logger)]>>
    /\ UNCHANGED <<os, config, cachedID, diagnostics, mu, locals, execCount,
                   passes, calls, configs, hIn>>

AppendSpec == AppendInit /\ [][AppendStep]_vars

\* ------------------------------------------------------------------------
\* One source block of collectIdentifiers on its own, on every platform,
\* over a wider choice of answers than a whole Provider run can afford
\* ------------------------------------------------------------------------

\* The texts a source may hold for a value.
SourceValues == {Empty, Space, ValA, ValB, ZeroUUID, biosFirmwareMessage}

\* The sequences of at most MaxEntries elements of a set.
UpTo(set) == UNION {[1..n -> set] : n \in 0..MaxEntries}

\* The answers one source block of a collector may get.
SourceWorlds(o, flag) ==
    LET profiler ==
            {Data(FALSE, SPOutput(FALSE, <<>>)), Data(TRUE, SPOutput(FALSE, <<>>)),
             Data(TRUE, SPOutput(TRUE, <<>>))}
            \cup {Data(TRUE, SPOutput(TRUE, <<spHardwareEntry(v, v, v)>>)) :
                        v \in SourceValues}
        ioreg ==
            {Data(FALSE, IORegOutput(Empty, Empty))}
            \cup {Data(TRUE, IORegOutput(v, v)) : v \in SourceValues}
        storage ==
            {Data(FALSE, SPOutput(FALSE, <<>>)), Data(TRUE, SPOutput(FALSE, <<>>))}
            \cup {Data(TRUE, SPOutput(TRUE, es)) :
                    es \in UpTo({spStorageEntry(n, i) :
                                    n \in {Empty, Space, ValA, ValB},
                                    i \in {"yes", "no"}})}
        wmic ==
            {Data(FALSE, <<>>)}
            \cup {Data(TRUE, ls) :
                    ls \in UpTo({WmicLine(FALSE, ValA)}
                                   \cup {WmicLine(TRUE, v) : v \in SourceValues})}
        powershell ==
            {Text(FALSE, Empty)} \cup {Text(TRUE, v) : v \in SourceValues}
        lines ==
            {Data(FALSE, <<>>)}
            \cup {Data(TRUE, ls) : ls \in UpTo({Empty, Space, ValA, ValB})}
        files == {File(FALSE, Empty)} \cup {File(TRUE, v) : v \in SourceValues}
        sys ==
            {[ok |-> FALSE, entries |-> <<>>]}
            \cup {[ok |-> TRUE, entries |-> es] :
                    es \in UpTo({BlockEntry(FALSE, FALSE, File(TRUE, ValA)),
                                    BlockEntry(TRUE, TRUE, File(TRUE, ValA)),
                                    BlockEntry(TRUE, FALSE, File(FALSE, Empty))}
                                   \cup {BlockEntry(TRUE, FALSE, File(TRUE, v)) :
                                            v \in {Space, ValA, ValB}})}
        interfaces ==
            {[ok |-> FALSE, interfaces |-> <<>>]}
            \cup {[ok |-> TRUE, interfaces |-> is] :
                    is \in UpTo({Interface(Lo0, TRUE, TRUE, Empty),
                                    Interface(Lo0, FALSE, TRUE, ValB),
                                    Interface(Docker0, FALSE, TRUE, ValB),
                                    Interface(S(<<66, 114, 105, 100, 103, 101, 48>>),   \* "Bridge0"
                                              FALSE, TRUE, ValA),
                                    Interface(En0, FALSE, TRUE, ValA),
                                    Interface(En0, FALSE, FALSE, ValA),
                                    Interface(En0, FALSE, TRUE, Empty)})}
    IN  CASE flag = "includeMAC" -> [interfaces : interfaces]
          [] o = "darwin" /\ flag \in {"includeSystemUUID", "includeMotherboard"} ->
                [profiler : profiler, ioreg : ioreg]
          [] o = "darwin" /\ flag = "includeCPU" ->
                [brand : SysctlAnswers,
                 features : SysctlFeatureAnswers \cup {Text(TRUE, Empty)},
                 profiler : profiler]
          [] o = "darwin" /\ flag = "includeDisk" -> [storage : storage]
          [] o = "windows" /\ flag = "includeDisk" ->
                [wmic : wmic, powershellLines : lines]
          [] o = "windows" /\ flag # "includeDisk" ->
                [wmic : wmic, powershell : powershell]
          [] o = "linux" /\ flag = "includeCPU" -> [cpuinfo : CPUInfoAnswers]
          [] o = "linux" /\ flag = "includeSystemUUID" ->
                [uuidFiles : files \X files, machineFiles : LocationAnswers]
          [] o = "linux" /\ flag = "includeMotherboard" ->
                [serialFiles : files \X files]
          [] o = "linux" /\ flag = "includeDisk" -> [lsblk : lines, sys : sys]

SourceInit ==
    /\ os \in {"linux", "darwin", "windows"}
    /\ ProviderInit
    /\ \E flag \in Range(SlotOrder(os)) :
         \E w \in SourceWorlds(os, flag), at \in 0..Commands(os, flag) :
            hIn = [flag |-> flag, w |-> w, at |-> at]
    /\ hOut = <<>>

\* The block of the flag, entered with an empty list and a fresh diag; for
\* the MAC block also what collectMACAddresses returns under each filter
\* (the three declared values and a value that is none of them),
\* for the whole snapshot and for each of its interfaces alone, and for the
\* Linux DMI and machine-id blocks what the file readers return.
SourceStep ==
    /\ hOut = <<>>
    /\ hOut' = <<[block |-> CollectBlock(os, Components(os, hIn.flag),
                                [identifiers |-> <<>>, diag |-> NewDiagnosticInfo,
                                 expired |-> FALSE, invoked |-> <<>>, last |-> <<>>],
                                hIn.w, hIn.at),
                  macs |-> IF hIn.flag # "includeMAC" THEN <<>>
                           ELSE <<[f \in {MACFilterPhysical, MACFilterAll, MACFilterVirtual,
                                           "MACFilter(99)"} |->
                                    collectMACAddresses(f, hIn.w.interfaces)]>>,
                  read |-> IF os # "linux" THEN <<>>
                           ELSE IF hIn.flag = "includeSystemUUID"
                           THEN <<linuxSystemUUID(hIn.w), linuxMachineID(hIn.w)>>
                           ELSE IF hIn.flag = "includeMotherboard"
                           THEN <<linuxMotherboardSerial(hIn.w)>>
                           ELSE <<>>,
                  each |-> IF hIn.flag # "includeMAC" THEN <<>>
                           ELSE [k \in 1..Len(hIn.w.interfaces.interfaces) |->
                                    [f \in {MACFilterPhysical, MACFilterVirtual} |->
                                        FilterMACs(<<hIn.w.interfaces.interfaces[k]>>, f)]]]>>
    /\ UNCHANGED <<os, config, cachedID, diagnostics, mu, locals, execCount,
                   passes, calls, configs, hIn>>

SourceSpec == SourceInit /\ [][SourceStep]_vars

\* ------------------------------------------------------------------------
\* Properties
\* ------------------------------------------------------------------------

\* An ID call (made directly or by Validate) of goroutine g returns in
\* this step.
Returns(g) == pc[g] \in {"waiting", "finish"} /\ pc'[g] = "idle" /\ op[g] # "Diagnostics"

Success(r) == r # <<>> /\ r[1].err = Nil

InPass(g) == pc[g] \in {"collect", "finish"}

\* The components of the enabled blocks, in the platform's order.
RECURSIVE Expected(_, _)
Expected(o, flags) ==
    IF flags = <<>> THEN <<>>
    ELSE (IF Flag(Head(flags)) THEN Components(o, Head(flags)) ELSE <<>>)
            \o Expected(o, Tail(flags))

\* Producers that run no external command at all.
CommandFree(o, component) ==
    \/ component = ComponentMAC
    \/ o = "linux" /\ component # ComponentDisk

\* C1: once an ID call has returned a fingerprint with a nil error, every
\* step leaves the cache alone and makes no Execute invocation, and every ID
\* call that returns from then on returns that same fingerprint with a nil
\* error, whatever configuration calls are made in between.
C1_CachedForever ==
    [][(\E h \in Goroutines : Success(ret[h])) =>
          /\ execCount' = execCount
          /\ cachedID' = cachedID
          /\ \A g \in Goroutines :
                /\ Success(ret[g]) => ret[g][1].id = cachedID
                /\ Returns(g) => ret'[g] = <<[id |-> cachedID, err |-> Nil]>>]_vars

\* Two ID calls have returned the fingerprint, and the configuration was
\* changed after it was computed: the salt now set is not the one in it.
C1_Witness ==
    /\ calls = 2
    /\ \A g \in Goroutines : Success(ret[g]) /\ op[g] = "ID"
    /\ salt # Empty
    /\ cachedID # hashIdentifiers(<<Prefix(os, ComponentMAC) \o ValA>>, salt, formatMode)
    /\ cachedID = hashIdentifiers(<<Prefix(os, ComponentMAC) \o ValA>>, Empty, formatMode)

\* C2: at most one goroutine is inside a collection pass at any time; as
\* long as no pass has ended without identifier, one pass at most is ever
\* started, and every ID call that has returned has returned the one cached
\* fingerprint of that pass.
C2_OnePass ==
    /\ Cardinality({g \in Goroutines : InPass(g)}) <= 1
    /\ passes.empty = 0 =>
          /\ passes.started <= 1
          /\ \A g \in Goroutines :
                ret[g] # <<>> =>
                    /\ passes.started = 1
                    /\ Success(ret[g])
                    /\ ret[g][1].id = cachedID
                    /\ \A h \in Goroutines : ret[h] # <<>> => ret[h] = ret[g]

\* Both goroutines have called ID and got the fingerprint of the only pass.
C2_Witness ==
    /\ passes = [started |-> 1, empty |-> 0]
    /\ \A g \in Goroutines : op[g] = "ID" /\ Success(ret[g])
    /\ ret[1] = ret[2]

\* C3: an ID call whose pass collected no identifier returns the empty
\* string with ErrNoIdentifiers and leaves cachedID empty; an ID call that
\* gets the lock while cachedID is empty starts a new pass; each block of a
\* pass reads the flag as configured at that time; and a pass that collected
\* an identifier returns the fingerprint of what it collected, under the
\* salt and format set at that time.
C3_EmptyPassRetries ==
    [][\A g \in Goroutines :
          /\ (pc[g] = "finish" /\ Len(pass[g].identifiers) = 0 /\ pc'[g] = "idle") =>
                /\ ret'[g] = <<[id |-> Empty, err |-> ErrNoIdentifiers]>>
                /\ cachedID' = Empty
          /\ (pc[g] = "waiting" /\ op[g] # "Diagnostics" /\ pc'[g] # "waiting"
                 /\ cachedID = Empty) =>
                /\ pc'[g] = "collect"
                /\ passes'.started = passes.started + 1
                /\ pass'[g].identifiers = <<>>
          /\ (pc[g] = "collect" /\ pass'[g] # pass[g]) =>
                pass'[g].read = Append(pass[g].read, Flag(SlotOrder(os)[pass[g].pos]))
          /\ (pc[g] = "finish" /\ Len(pass[g].identifiers) > 0 /\ pc'[g] = "idle") =>
                /\ ret'[g] = <<[id |-> hashIdentifiers(pass[g].identifiers, salt, formatMode),
                               err |-> Nil]>>
                /\ cachedID' = ret'[g][1].id
                /\ cachedID' # Empty]_vars

\* A pass ended without identifier, and a later ID call returned a
\* fingerprint.
C3_Witness ==
    /\ passes.empty >= 1
    /\ cachedID # Empty
    /\ \E g \in Goroutines : ret[g] = <<[id |-> cachedID, err |-> Nil]>>

\* C4: an ID call returns either a non-empty fingerprint with a nil error
\* or the empty string with ErrNoIdentifiers; at the end of a pass it is the
\* first exactly when the pass collected an identifier, and the failures of
\* the components go to p.diagnostics.
C4_TwoOutcomes ==
    [][\A g \in Goroutines :
          Returns(g) =>
             LET r == ret'[g][1]
             IN  /\ \/ r.err = Nil /\ r.id # Empty
                    \/ r.err = ErrNoIdentifiers /\ r.id = Empty
                 /\ pc[g] = "finish" =>
                       /\ r.err = Nil <=> Len(pass[g].identifiers) > 0
                       /\ diagnostics' = <<pass[g].diag>>]_vars

\* An ID call returned a fingerprint although a component failed: the
\* failure is in the diagnostics only.
C4_Witness ==
    /\ \E g \in Goroutines : op[g] = "ID" /\ Success(ret[g])
    /\ diagnostics # <<>>
    /\ DOMAIN diagnostics[1].Errors # {}
    /\ diagnostics[1].Collected # <<>>

\* C5: when collectIdentifiers returns, all five blocks have been passed and
\* the producers invoked are those of the enabled blocks, each once, in the
\* platform's order.
C5_EveryProducerOnce ==
    \A g \in Goroutines :
        pc[g] = "finish" =>
            /\ Len(pass[g].read) = Len(SlotOrder(os))
            /\ pass[g].invoked = Expected(os, SlotOrder(os))

\* A pass ends in which the first producer invoked failed and a later one
\* was invoked and collected.
C5_Witness ==
    \E g \in Goroutines :
        /\ pc[g] = "finish"
        /\ Len(pass[g].invoked) >= 2
        /\ pass[g].invoked[1] \in DOMAIN pass[g].diag.Errors
        /\ pass[g].invoked[Len(pass[g].invoked)] \in Range(pass[g].diag.Collected)

\* C6 as stated: a signal attempted after the caller's deadline has expired
\* in the same pass is collected whenever its sources carry a value.
C6_LaterSignalsCollected ==
    \A g \in Goroutines :
        \A i \in 1..Len(pass[g].last) :
            LET e == pass[g].last[i]
            IN  (e.before /\ e.available) =>
                    e.component \in Range(pass[g].diag.Collected)

\* C6 as amended: a signal attempted after the caller's deadline has
\* expired is still attempted, but all its commands fail: it is collected
\* only from a source read without a command (every Linux signal but the
\* lsblk part of disk, and MAC everywhere), a command-free signal whose
\* source carries a value is collected, and any other signal is recorded in
\* diag.Errors.
C6_LaterCommandsFail ==
    \A g \in Goroutines :
        \A i \in 1..Len(pass[g].last) :
            LET e == pass[g].last[i]
                collected == e.component \in Range(pass[g].diag.Collected)
                failed == e.component \in DOMAIN pass[g].diag.Errors
            IN  e.before =>
                    /\ e.after
                    /\ collected # failed
                    /\ collected => CommandFree(os, e.component) \/ os = "linux"
                    /\ (CommandFree(os, e.component) /\ e.available) => collected
                    /\ (e.execs > 0 /\ os # "linux") =>
                          /\ failed
                          /\ ErrorsIs(pass[g].diag.Errors[e.component], DeadlineExceeded)
                                \/ ErrorsIs(pass[g].diag.Errors[e.component],
                                            ErrAllMethodsFailed)

\* After the deadline expired, a signal whose commands would have answered
\* is recorded as failed with the deadline as cause.
C6_Witness ==
    \E g \in Goroutines :
        \E i \in 1..Len(pass[g].last) :
            LET e == pass[g].last[i]
            IN  /\ e.before
                /\ e.available
                /\ e.execs > 0
                /\ e.component \in DOMAIN pass[g].diag.Errors
                /\ ErrorsIs(pass[g].diag.Errors[e.component], DeadlineExceeded)

\* C7: Validate returns (true, nil) when its ID call succeeded with the
\* candidate, (false, nil) when it succeeded with another string, and
\* (false, err) with ID's error when it failed.
C7_Validate ==
    \A g \in Goroutines :
        valid[g] # <<>> =>
            LET v == valid[g][1]
                r == ret[g][1]
            IN  /\ op[g] = "Validate"
                /\ (r.err = Nil /\ r.id = id[g]) => v = [valid |-> TRUE, err |-> Nil]
                /\ (r.err = Nil /\ r.id # id[g]) => v = [valid |-> FALSE, err |-> Nil]
                /\ r.err # Nil => v = [valid |-> FALSE, err |-> r.err] /\ v.err # Nil

\* A Validate call returned (false, ErrNoIdentifiers) although its candidate
\* equals the string its ID call returned (both are empty).
C7_Witness ==
    \E g \in Goroutines :
        /\ valid[g] = <<[valid |-> FALSE, err |-> ErrNoIdentifiers]>>
        /\ id[g] = ret[g][1].id

\* C8: hashIdentifiers gives a permutation of an identifier list the
\* fingerprint of the list, for every salt and format.
C8_OrderIndependent ==
    hOut # <<>> => hOut[1].permuted = hOut[1].fingerprint

\* A list of three different identifiers in descending order, hashed with
\* a salt.
C8_Witness ==
    /\ hOut # <<>>
    /\ hIn.permuted # hIn.identifiers
    /\ hIn.identifiers = <<ValB, ValA \o ValB, ValA>>
    /\ hIn.salt # Empty

\* C9: for one identifier list and format, two different salts, one of
\* which may be empty, give different fingerprints.
C9_SaltsDiffer ==
    hOut # <<>> =>
        \A s1, s2 \in SaltPool :
            s1 # s2 => hOut[1].bySalt[s1] # hOut[1].bySalt[s2]

\* The fingerprints, cut to 32 characters, of a list that begins with one
\* of the salts: without salt, and with each salt.
C9_Witness ==
    /\ hOut # <<>>
    /\ hIn.salt = Empty
    /\ hIn.identifiers = <<ValA, ValB>>
    /\ hIn.mode = Format32
    /\ hOut[1].bySalt[Empty] = hOut[1].fingerprint
    /\ hOut[1].bySalt[ValA] # hOut[1].fingerprint

\* C10: the Format32 fingerprint is the first 32 characters of the Format64
\* one, and the Format64 fingerprint the first 64 of the Format128 one.
C10_FormatPrefixes ==
    hOut # <<>> =>
        /\ hOut[1].f32 = SubSeq(hOut[1].f64, 1, 32)
        /\ hOut[1].f64 = SubSeq(hOut[1].f128, 1, 64)

\* The three fingerprints of a salted list, with their lengths.
C10_Witness ==
    /\ hOut # <<>>
    /\ hIn.identifiers # <<>>
    /\ hIn.salt # Empty
    /\ Len(hOut[1].f32) = 32
    /\ Len(hOut[1].f64) = 64
    /\ Len(hOut[1].f128) = 128

\* The four 64-character segments of the Format256 fingerprint.
Segment(str, i) == SubSeq(str, 64 * (i - 1) + 1, 64 * i)

\* C11 (as stated): the Format256 fingerprint is s1 s2 s3 s4 with s1 the base
\* hash, s2 the hex digest of s1, s3 the hex digest of s1 s2 and s4 the hex
\* digest of s1 s2 s3.
C11_GrowingString ==
    (hOut # <<>> /\ "fingerprint" \in DOMAIN hOut[1] /\ hIn.mode = Format256) =>
        LET f  == hOut[1].fingerprint
            s1 == Segment(f, 1)
            s2 == Segment(f, 2)
            s3 == Segment(f, 3)
        IN  /\ Len(f) = 256
            /\ s1 = hOut[1].f64
            /\ s2 = EncodeToString(Sum256(s1))
            /\ s3 = EncodeToString(Sum256(s1 \o s2))
            /\ Segment(f, 4) = EncodeToString(Sum256(s1 \o s2 \o s3))

\* C11 (amended): the Format256 fingerprint is four 64-character segments,
\* the first the base hash and each later one the hex digest of the segment
\* just before it alone.
C11_ChainedSegments ==
    (hOut # <<>> /\ "fingerprint" \in DOMAIN hOut[1] /\ hIn.mode = Format256) =>
        LET f == hOut[1].fingerprint
        IN  /\ Len(f) = 256
            /\ Segment(f, 1) = hOut[1].f64
            /\ \A i \in 2..4 :
                  Segment(f, i) = EncodeToString(Sum256(Segment(f, i - 1)))

\* A Format256 fingerprint of a salted list whose third segment is not the
\* digest of the first two segments together.
C11_Witness ==
    /\ hOut # <<>>
    /\ "fingerprint" \in DOMAIN hOut[1]
    /\ hIn.mode = Format256
    /\ hIn.identifiers # <<>>
    /\ hIn.salt # Empty
    /\ Len(hOut[1].fingerprint) = 256
    /\ Segment(hOut[1].fingerprint, 3) #
         EncodeToString(Sum256(Segment(hOut[1].fingerprint, 1)
                               \o Segment(hOut[1].fingerprint, 2)))

\* diag.Errors of the record after, given the record before: the entry of
\* component is a ComponentError of that component wrapping cause, and the
\* other entries are as before.
ErrorRecorded(before, after, component, cause) ==
    /\ after.Collected = before.Collected
    /\ DOMAIN after.Errors = DOMAIN before.Errors \cup {component}
    /\ Head(after.Errors[component]) = [type |-> "ComponentError", of |-> component]
    /\ Tail(after.Errors[component]) = cause
    /\ \A c \in DOMAIN before.Errors \ {component} :
          after.Errors[c] = before.Errors[c]

\* C12: appendIdentifierIfValid, on the one result of its producer: an error
\* or an empty string leaves the list unchanged, adds nothing to Collected
\* and sets Errors[component] to a ComponentError of the component wrapping
\* the producer's error or ErrEmptyValue; otherwise prefix+value becomes the
\* last element and the component is appended to Collected.  With a nil
\* diag the list is the same and nothing is recorded.
C12_AppendOne ==
    (hOut # <<>> /\ "one" \in DOMAIN hOut[1]) =>
        LET r      == hIn.one
            o      == hOut[1].one
            failed == r.err # Nil \/ r.val = Empty
            cause  == IF r.err # Nil THEN r.err ELSE ErrEmptyValue
        IN  /\ o.identifiers = IF failed THEN hIn.identifiers
                               ELSE hIn.identifiers \o <<hIn.prefix \o r.val>>
            /\ hIn.diag = <<>> => o.diag = <<>>
            /\ hIn.diag # <<>> =>
                  /\ Len(o.diag) = 1
                  /\ IF failed
                     THEN ErrorRecorded(hIn.diag[1], o.diag[1], hIn.component, cause)
                     ELSE /\ o.diag[1].Collected =
                               hIn.diag[1].Collected \o <<hIn.component>>
                          /\ o.diag[1].Errors = hIn.diag[1].Errors

\* An empty value: the list is kept and ErrEmptyValue replaces the older
\* error recorded for the same component.
C12_Witness ==
    /\ hOut # <<>>
    /\ "one" \in DOMAIN hOut[1]
    /\ hIn.one = Result(Empty, Nil, 0)
    /\ hIn.identifiers # <<>>
    /\ hOut[1].one.identifiers = hIn.identifiers
    /\ hIn.diag # <<>>
    /\ hIn.component \in DOMAIN hIn.diag[1].Errors
    /\ ErrorsIs(hOut[1].one.diag[1].Errors[hIn.component], ErrEmptyValue)

\* C13: appendIdentifiersIfValid, on the one result of its producer: a
\* zero-length list leaves the identifier list unchanged and records
\* ErrNoValues for the component; otherwise prefix+value is appended for
\* each non-empty value, in the order produced, and a value that is the
\* empty string is not appended.
C13_AppendMany ==
    (hOut # <<>> /\ "many" \in DOMAIN hOut[1] /\ hIn.many.err = Nil) =>
        LET r == hIn.many
            o == hOut[1].many
            NonEmptyValue(v) == v # Empty
            kept == SelectSeq(r.val, NonEmptyValue)
        IN  IF Len(r.val) = 0
            THEN /\ o.identifiers = hIn.identifiers
                 /\ hIn.diag # <<>> =>
                       ErrorRecorded(hIn.diag[1], o.diag[1], hIn.component,
                                     ErrNoValues)
            ELSE o.identifiers =
                    hIn.identifiers \o [i \in 1..Len(kept) |-> hIn.prefix \o kept[i]]

\* The identifiers one source block contributed.
BlockIdentifiers == hOut[1].block.identifiers

\* C14: every identifier a collector contributes to the list ID hashes has
\* the form prefix+raw, the prefix being that of a component of the block
\* and raw being neither empty nor made only of whitespace.
C14_NoBlankIdentifier ==
    (hOut # <<>> /\ "block" \in DOMAIN hOut[1]) =>
        \A i \in 1..Len(BlockIdentifiers) :
            \E c \in Range(Components(os, hIn.flag)) :
                LET prefix == Prefix(os, c)
                    e == BlockIdentifiers[i]
                IN  /\ HasPrefix(e, prefix)
                    /\ TrimSpace(SubSeq(e, Len(prefix) + 1, Len(e))) # Empty

\* Goroutine g's ID call ends its collection pass in this step.
EndsPass(g) == pc[g] = "finish" /\ pc'[g] # "finish"

C17_NoZeroUUID ==
    (hOut # <<>> /\ "block" \in DOMAIN hOut[1] /\ hIn.flag = "includeSystemUUID") =>
        Prefix(os, ComponentSystemUUID) \o ZeroUUID \notin Range(BlockIdentifiers)

\* C18: on every platform the motherboard-serial block never contributes
\* the firmware OEM placeholder as a value.
C18_NoOEMPlaceholder ==
    (hOut # <<>> /\ "block" \in DOMAIN hOut[1] /\ hIn.flag = "includeMotherboard") =>
        Prefix(os, ComponentMotherboard) \o biosFirmwareMessage
            \notin Range(BlockIdentifiers)

\* C19: on every platform the identifiers the disk block contributes hold
\* each distinct serial or device name exactly once.
C19_DiskSerialsOnce ==
    (hOut # <<>> /\ "block" \in DOMAIN hOut[1] /\ hIn.flag = "includeDisk") =>
        \A i, j \in 1..Len(BlockIdentifiers) :
            BlockIdentifiers[i] = BlockIdentifiers[j] => i = j

\* C20: on every platform, the error recorded in diag.Errors for a signal of
\* which every acquisition method failed is the all-methods-failed error.
C20_AllMethodsFailed ==
    (hOut # <<>> /\ "block" \in DOMAIN hOut[1]) =>
        \A c \in DOMAIN hOut[1].block.diag.Errors :
            ErrorsIs(hOut[1].block.diag.Errors[c], ErrAllMethodsFailed)

\* Every source of the block answered with a failure.
EverySourceFails(w) == \A k \in DOMAIN w : ~w[k].ok

\* C21: the error recorded for a signal whose external commands all failed
\* has the executor's error (the command's own failure, or the deadline)
\* in its Unwrap chain.
C21_CauseReachable ==
    (/\ hOut # <<>> /\ "block" \in DOMAIN hOut[1]
     /\ Commands(os, hIn.flag) > 0
     /\ EverySourceFails(hIn.w)) =>
        \A c \in DOMAIN hOut[1].block.diag.Errors :
            \/ ErrorsIs(hOut[1].block.diag.Errors[c], ExitError)
            \/ ErrorsIs(hOut[1].block.diag.Errors[c], DeadlineExceeded)

TwoMethod(o, flag) ==
    \/ o = "darwin" /\ flag \in {"includeSystemUUID", "includeMotherboard"}
    \/ o = "windows" /\ flag # "includeMAC"

\* The acceptable values (not empty, not the OEM placeholder) in the
\* output of the primary command of a two-method signal, in order.
PrimaryValues(o, flag, w) ==
    LET Acceptable(v) == v # Empty /\ v # biosFirmwareMessage
        Wanted(line) == line.key /\ Acceptable(TrimSpace(line.value))
        lines == SelectSeq(w.wmic.out, Wanted)
        field == IF flag = "includeSystemUUID" THEN "PlatformUUID" ELSE "SerialNumber"
    IN  IF o = "windows"
        THEN [i \in 1..Len(lines) |-> TrimSpace(lines[i].value)]
        ELSE IF w.profiler.out.json /\ Len(w.profiler.out.entries) > 0
                /\ Acceptable(w.profiler.out.entries[1][field])
        THEN <<w.profiler.out.entries[1][field]>>
        ELSE <<>>

\* The primary command ran to a successful exit.
PrimarySucceeds(o, w, at) ==
    at # 1 /\ (IF o = "windows" THEN w.wmic.ok ELSE w.profiler.ok)

\* C23: for each two-method signal on macOS and Windows the fallback
\* command is executed exactly when the primary command failed or its
\* output held no acceptable value (unparsable, empty, or the OEM
\* placeholder); when the primary gives a value, the signal's identifiers
\* are that value (for disks: those values) and only one command ran.
C23_FallbackIffNoValue ==
    (hOut # <<>> /\ "block" \in DOMAIN hOut[1] /\ TwoMethod(os, hIn.flag)) =>
        LET values == PrimaryValues(os, hIn.flag, hIn.w)
            gives  == PrimarySucceeds(os, hIn.w, hIn.at) /\ values # <<>>
            c      == Head(Components(os, hIn.flag))
            execs  == hOut[1].block.last[1].execs
        IN  /\ execs = 2 <=> ~gives
            /\ gives =>
                 /\ execs = 1
                 /\ BlockIdentifiers =
                      IF hIn.flag = "includeDisk"
                      THEN [i \in 1..Len(values) |-> Prefix(os, c) \o values[i]]
                      ELSE <<Prefix(os, c) \o values[1]>>

\* C24: macOSCPUInfo gives brand ":" features when the brand query gives
\* a non-empty brand and the features query succeeds (a trailing colon
\* when the features are empty), the brand alone when the features query
\* fails, the chip_type of system_profiler when the brand query fails or
\* is empty and chip_type is not empty, and ErrAllMethodsFailed otherwise.
C24_CPUInfoCases ==
    (hOut # <<>> /\ "block" \in DOMAIN hOut[1]
        /\ os = "darwin" /\ hIn.flag = "includeCPU") =>
        LET w        == hIn.w
            first    == hIn.at # 1
            second   == hIn.at = 0
            brand    == TrimSpace(w.brand.out)
            hasBrand == first /\ w.brand.ok /\ brand # Empty
            hasChip  == /\ second /\ w.profiler.ok /\ w.profiler.out.json
                        /\ Len(w.profiler.out.entries) > 0
                        /\ w.profiler.out.entries[1].ChipType # Empty
            cpu      == Prefix(os, ComponentCPU)
            d        == hOut[1].block.diag
        IN  IF hasBrand
            THEN /\ BlockIdentifiers =
                      IF second /\ w.features.ok
                      THEN <<cpu \o brand \o Colon \o TrimSpace(w.features.out)>>
                      ELSE <<cpu \o brand>>
                 /\ d.Errors = <<>>
            ELSE IF hasChip
            THEN /\ BlockIdentifiers = <<cpu \o w.profiler.out.entries[1].ChipType>>
                 /\ d.Errors = <<>>
            ELSE /\ BlockIdentifiers = <<>>
                 /\ d.Errors = (ComponentCPU :>
                        ComponentError(ComponentCPU, ErrAllMethodsFailed))

\* The Apple Silicon case: a brand with empty features gives "cpu:A:".
C24_Witness ==
    /\ hOut # <<>>
    /\ "block" \in DOMAIN hOut[1]
    /\ os = "darwin"
    /\ hIn.flag = "includeCPU"
    /\ hIn.w.features = Text(TRUE, Empty)
    /\ BlockIdentifiers = <<Prefix(os, ComponentCPU) \o ValA \o Colon>>

\* What readFirstValidFromLocations is to return for the files locs under
\* the validator: the trimmed content of the first readable file that
\* passes, having read the paths up to that one and no further, and
\* ErrNotFound after reading them all when none passes.
FirstValid(r, locs, validator) ==
    LET Passes(i) == /\ locs[i].ok
                     /\ TrimSpace(locs[i].data) # Empty
                     /\ validator = "isValidUUID" => TrimSpace(locs[i].data) # ZeroUUID
                     /\ validator = "isValidSerial" =>
                            TrimSpace(locs[i].data) # biosFirmwareMessage
        passing == {i \in 1..Len(locs) : Passes(i)}
    IN  IF passing = {}
        THEN r.val = Empty /\ r.err = ErrNotFound /\ r.reads = Len(locs)
        ELSE \E i \in passing :
                /\ \A j \in passing : i <= j
                /\ r.val = TrimSpace(locs[i].data)
                /\ r.err = Nil
                /\ r.reads = i

\* C25: readFirstValidFromLocations returns the trimmed content of the
\* first path, in list order, that is readable and passes the validator,
\* reads no path after it, and returns ErrNotFound when no path qualifies.
C25_FirstValidLocation ==
    (hOut # <<>> /\ "read" \in DOMAIN hOut[1] /\ os = "linux") =>
        /\ hIn.flag = "includeSystemUUID" =>
              /\ FirstValid(hOut[1].read[1], hIn.w.uuidFiles, "isValidUUID")
              /\ FirstValid(hOut[1].read[2], hIn.w.machineFiles, "isNonEmpty")
        /\ hIn.flag = "includeMotherboard" =>
              FirstValid(hOut[1].read[1], hIn.w.serialFiles, "isValidSerial")

\* The first path holds the all-zero UUID, the second a real one: both are
\* read and the second wins.
C25_Witness ==
    /\ hOut # <<>>
    /\ "read" \in DOMAIN hOut[1]
    /\ os = "linux"
    /\ hIn.flag = "includeSystemUUID"
    /\ hIn.w.uuidFiles[1] = File(TRUE, ZeroUUID)
    /\ hOut[1].read[1].val = ValA
    /\ hOut[1].read[1].reads = 2

\* The two lists hold the same identifiers the same number of times.
SameMultiset(a, b) ==
    \A v \in Range(a) \cup Range(b) :
        Cardinality({i \in 1..Len(a) : a[i] = v})
            = Cardinality({i \in 1..Len(b) : b[i] = v})

NoPipe(str) == \A i \in 1..Len(str) : str[i] # Pipe[1]

\* C26: for salts and identifiers without '|', two inputs of hashIdentifiers
\* that differ in the salt or in the multiset of identifiers are never
\* hashed from the same string.  (The string does not depend on the format:
\* the states of the default format cover every salt and list.)
C26_PreHashInjective ==
    (hOut # <<>> /\ "combined" \in DOMAIN hOut[1] /\ NoPipe(hIn.salt)
        /\ hIn.mode = Format64) =>
        \A s2 \in SaltPool, ids2 \in IdLists :
            (NoPipe(s2) /\ (s2 # hIn.salt \/ ~SameMultiset(ids2, hIn.identifiers))) =>
                combined(ids2, s2) # hOut[1].combined

\* C26 as the code has it: two inputs that are both salted or both
\* unsalted and differ in salt or identifiers are hashed from different
\* strings; a salted input and an unsalted one are hashed from the same
\* string exactly when the unsalted identifiers are the salted ones plus the
\* salt's text, there is at least one salted identifier, and the salt sorts
\* no later than each of them.
C26_PreHashUpToSaltAsIdentifier ==
    (hOut # <<>> /\ "combined" \in DOMAIN hOut[1] /\ NoPipe(hIn.salt)
        /\ hIn.mode = Format64) =>
        \A s2 \in SaltPool, ids2 \in IdLists :
            NoPipe(s2) =>
                IF (s2 = Empty) <=> (hIn.salt = Empty)
                THEN (s2 # hIn.salt \/ ~SameMultiset(ids2, hIn.identifiers)) =>
                        combined(ids2, s2) # hOut[1].combined
                ELSE IF s2 = Empty
                THEN combined(ids2, s2) = hOut[1].combined <=>
                        /\ hIn.identifiers # <<>>
                        /\ SameMultiset(ids2, Append(hIn.identifiers, hIn.salt))
                        /\ \A i \in 1..Len(hIn.identifiers) :
                                ~StrLess(hIn.identifiers[i], hIn.salt)
                ELSE combined(ids2, s2) = hOut[1].combined <=>
                        /\ ids2 # <<>>
                        /\ SameMultiset(hIn.identifiers, Append(ids2, s2))
                        /\ \A i \in 1..Len(ids2) : ~StrLess(ids2[i], s2)

\* The identifier B under the salt A has the fingerprint of the unsalted
\* identifiers A and B.
C26_Witness ==
    /\ hOut # <<>>
    /\ "combined" \in DOMAIN hOut[1]
    /\ hIn.salt = ValA
    /\ hIn.identifiers = <<ValB>>
    /\ hOut[1].combined = ValA \o Pipe \o ValB
    /\ hOut[1].fingerprint = hashIdentifiers(<<ValB, ValA>>, Empty, hIn.mode)

\* The component has an identifier of its prefix in the list.
Contributed(o, component, identifiers) ==
    \E i \in 1..Len(identifiers) : HasPrefix(identifiers[i], Prefix(o, component))

\* C27: the record a collection pass stores lists in Collected, in
\* invocation order and each once, exactly the invoked components that
\* have no entry in Errors, and these are the components that contributed
\* identifiers; Errors has entries for invoked components only.  So each
\* component attempted is in exactly one of the two.
C27_CollectedOrErrors ==
    [][\A g \in Goroutines :
          EndsPass(g) =>
             LET d == diagnostics'[1]
                 Succeeded(c) == c \notin DOMAIN d.Errors
             IN  /\ Len(pass[g].invoked) = Cardinality(Range(pass[g].invoked))
                 /\ DOMAIN d.Errors \subseteq Range(pass[g].invoked)
                 /\ d.Collected = SelectSeq(pass[g].invoked, Succeeded)
                 /\ \A c \in Range(pass[g].invoked) :
                        Succeeded(c) <=> Contributed(os, c, pass[g].identifiers)]_vars

\* A stored record with two components collected and one failed.
C27_Witness ==
    /\ diagnostics # <<>>
    /\ Len(diagnostics[1].Collected) >= 2
    /\ diagnostics[1].Collected[1] # diagnostics[1].Collected[2]
    /\ DOMAIN diagnostics[1].Errors # {}

\* C28: a pass of ID uses the configuration in force when ID acquired the
\* mutex, whatever configuration methods other goroutines call meanwhile:
\* each block is entered or skipped by the flag as it was then, and the
\* fingerprint cached is the hash under the salt and format as they were
\* then.
C28_PassUsesLockedConfig ==
    [][\A g \in Goroutines :
          EndsPass(g) =>
             LET lockedFlag(flag) ==
                    CASE flag = "includeCPU" -> pass[g].locked[3]
                      [] flag = "includeMotherboard" -> pass[g].locked[4]
                      [] flag = "includeSystemUUID" -> pass[g].locked[5]
                      [] flag = "includeMAC" -> pass[g].locked[6]
                      [] flag = "includeDisk" -> pass[g].locked[7]
             IN  /\ \A i \in 1..Len(pass[g].read) :
                        pass[g].read[i] = lockedFlag(SlotOrder(os)[i])
                 /\ pass[g].identifiers # <<>> =>
                        cachedID' = hashIdentifiers(pass[g].identifiers,
                                        pass[g].locked[1], pass[g].locked[2])]_vars

\* C29: collectMACAddresses called with a filter value that is none of
\* the three declared ones returns what it returns under MACFilterPhysical.
C29_UnknownFilterIsPhysical ==
    (hOut # <<>> /\ "macs" \in DOMAIN hOut[1] /\ hIn.flag = "includeMAC") =>
        hOut[1].macs[1]["MACFilter(99)"] = hOut[1].macs[1][MACFilterPhysical]

\* C30: every call of ID, Validate or Diagnostics, made while other
\* goroutines call the same Provider, eventually returns.
C30_EveryCallReturns ==
    \A g \in Goroutines : (pc[g] # "idle") ~> (pc[g] = "idle")

\* A goroutine waits for the mutex while another is in its collection
\* pass, and the first has since returned from a call.
C30_Witness ==
    \E g, h \in Goroutines :
        /\ pc[g] = "waiting"
        /\ mu = h
        /\ InPass(h)
        /\ ret[g] # <<>>

====
